---------------------------- MODULE Spec2Model ----------------------------
(***************************************************************************)
(* A model of the decision core of the LLM reliability control plane:      *)
(*   - calculate_health_score         (src/app/health_score.py)            *)
(*   - AnomalyAttributionEngine       (src/app/anomaly_attribution_engine) *)
(*   - ModelRouter                    (src/app/model_router.py)            *)
(*                                                                         *)
(* Numbers.  The code computes in floating point; the model computes in    *)
(* exact integers of a fixed unit, chosen per quantity so that every value *)
(* the code can produce on the modelled inputs is a whole number of units: *)
(*   latency               milliseconds                                    *)
(*   rates                 per mille            (0.05  is  50)             *)
(*   cost_per_request      1e-4 dollar          (0.001 is  10)             *)
(*   quality (0-1)         hundredths           (0.75  is  75)             *)
(*   token_efficiency      tenths                                          *)
(*   health raw scores     1/900 point          (100.0 is  90000)          *)
(*   health outputs        hundredths of a point (round(x, 2))             *)
(*   change_pct            tenths of a percent  (66.7  is  667)            *)
(*   contribution_pct      percent                                         *)
(*   attribution confidence  1/60,000,000       (0.95 is 57,000,000)       *)
(*   token cost            micro-dollars        ($0.075/1K is 75 a token)  *)
(*   router scores         millionths                                      *)
(***************************************************************************)
EXTENDS Integers, Sequences, FiniteSets, TLC

VARIABLES
    snapshot,        \* keyword arguments of the last calculate_health_score call
    scores,          \* the dict that call returned
    prev_snapshot,   \* arguments of the call before it
    prev_scores,     \* what that call returned
    engine,          \* AnomalyAttributionEngine: its datadog_enabled flag
    telemetry,       \* what the telemetry platform answers (or the simulation)
    attribution,     \* the AnomalyAttribution returned by attribute_anomaly
    routers,         \* ModelRouter instances: models, routing_history, routing_stats
    route_calls,     \* per router, the last route_request call and its outcome
    decisions,       \* per router, every routing record appended since construction
    predictor,       \* CostPredictor: enabled, is_trained, model, scaler
    cost_call,       \* the last train or predict_next_24h call and its outcome
    quality_predictor, \* QualityPredictor: enabled, baseline_embeddings
    drift_call,      \* the last call on the quality predictor and its outcome
    insights_call,   \* the last generate_ml_recommendations call and its outcome
    storage,         \* the file at CostOptimizationEngine's storage_path
    optimizer,       \* CostOptimizationEngine: recommendations, results
    opt_call,        \* the last call on the optimization engine and its outcome
    client,          \* the shared LLMClient: model_name, model
    generations      \* per generate call in flight: its position and locals

healthVars == <<snapshot, scores, prev_snapshot, prev_scores>>
attrVars   == <<engine, telemetry, attribution>>
routerVars == <<routers, route_calls, decisions>>
mlVars     == <<predictor, cost_call, quality_predictor, drift_call,
                insights_call>>
optVars    == <<storage, optimizer, opt_call>>
clientVars == <<client, generations>>
vars       == <<snapshot, scores, prev_snapshot, prev_scores,
                engine, telemetry, attribution,
                routers, route_calls, decisions,
                predictor, cost_call, quality_predictor, drift_call,
                insights_call, storage, optimizer, opt_call,
                client, generations>>

\* Python's None.
None == [none |-> TRUE]

Max(a, b) == IF a >= b THEN a ELSE b
Min(a, b) == IF a <= b THEN a ELSE b
Abs(a)    == IF a >= 0 THEN a ELSE -a

(***************************************************************************)
(*                        calculate_health_score                           *)
(***************************************************************************)

\* round(n/d, 2) in hundredths, n >= 0, d > 0; a tie goes to the even digit.
Round2(n, d) ==
    LET q == (100 * n) \div d
        r == (100 * n) % d
    IN  IF 2 * r < d THEN q
        ELSE IF 2 * r > d THEN q + 1
        ELSE q + (q % 2)

\* health_score.py 43-51, in 1/900 point.
performance_score(latency_ms) ==
    IF latency_ms < 500 THEN 90000
    ELSE IF latency_ms < 1000
         THEN Max(72000, 90000 - (latency_ms - 500) * 36)
    ELSE IF latency_ms < 1500
         THEN 54000 - (latency_ms - 1000) * 108
    ELSE Max(0, 54000 - (latency_ms - 1500) * 108)

\* The reliability score with its error term taken by magnitude instead of
\* floored at 0.
reliability_score_abs(error_rate, retry_rate) ==
    LET base          == Abs(90000 - error_rate * 900)
        retry_penalty == Min(18000, retry_rate * 90)
    IN  Max(0, base - retry_penalty)

\* health_score.py 55-57.
reliability_score(error_rate, retry_rate) ==
    LET base          == Max(0, 90000 - error_rate * 900)
        retry_penalty == Min(18000, retry_rate * 90)
    IN  Max(0, base - retry_penalty)

\* health_score.py 62-69.
cost_score(cost_per_request) ==
    IF cost_per_request < 10 THEN 90000
    ELSE IF cost_per_request < 100
         THEN 72000 - (cost_per_request - 10) * 200
    ELSE IF cost_per_request < 1000
         THEN 54000 - (cost_per_request - 100) * 60
    ELSE Max(0, 54000 - (cost_per_request - 1000) * 54)

\* health_score.py 72.
quality_score_normalized(quality_score) == quality_score * 900

\* health_score.py 76.
security_score(safety_block_rate) == Max(0, 90000 - safety_block_rate * 900)

\* health_score.py 80.
efficiency_bonus(token_efficiency) ==
    IF token_efficiency > 0 THEN Min(9000, token_efficiency * 900) ELSE 0

\* health_score.py 91-98: the weighted sum, in 1/18000 point
\* (weights 5/20, 5/20, 4/20, 4/20, 2/20, then the bonus).
weighted_sum(s) ==
      5 * performance_score(s.latency_ms)
    + 5 * reliability_score(s.error_rate, s.retry_rate)
    + 4 * cost_score(s.cost_per_request)
    + 4 * quality_score_normalized(s.quality_score)
    + 2 * security_score(s.safety_block_rate)
    + 20 * efficiency_bonus(s.token_efficiency)

\* A cap that lets the bonus through (what line 101 would be without min).
health_score_uncapped(s) == weighted_sum(s)

\* health_score.py 101: health_score = min(100.0, health_score).
health_score(s) == Min(1800000, weighted_sum(s))

\* health_score.py 17-120: the returned dict (outputs in hundredths).
calculate_health_score(s) ==
    [health_score      |-> Round2(health_score(s), 18000),
     performance_score |-> Round2(performance_score(s.latency_ms), 900),
     reliability_score |-> Round2(reliability_score(s.error_rate, s.retry_rate), 900),
     cost_score        |-> Round2(cost_score(s.cost_per_request), 900),
     quality_score     |-> Round2(quality_score_normalized(s.quality_score), 900),
     security_score    |-> Round2(security_score(s.safety_block_rate), 900),
     efficiency_bonus  |-> Round2(efficiency_bonus(s.token_efficiency), 900),
     breakdown         |-> s]

\* The inputs tried: every breakpoint of the piecewise mappings, a point inside
\* each band and one beyond the last.
Latencies      == {0, 499, 500, 999, 1000, 1499, 1500, 2000}
ErrorRates     == {0, 50, 1000}
RetryRates     == {0, 100, 1000}
Costs          == {0, 10, 55, 999, 1000, 2500}
QualityScores  == {0, 100}
SafetyRates    == {0, 1000}
TokenEfficiencies == {0, 30}

Snapshots ==
    [latency_ms : Latencies, error_rate : ErrorRates, retry_rate : RetryRates,
     cost_per_request : Costs, quality_score : QualityScores,
     safety_block_rate : SafetyRates, token_efficiency : TokenEfficiencies]

SnapshotFields ==
    {"latency_ms", "error_rate", "retry_rate", "cost_per_request",
     "quality_score", "safety_block_rate", "token_efficiency"}

FieldValues(f) ==
    CASE f = "latency_ms"        -> Latencies
      [] f = "error_rate"        -> ErrorRates
      [] f = "retry_rate"        -> RetryRates
      [] f = "cost_per_request"  -> Costs
      [] f = "quality_score"     -> QualityScores
      [] f = "safety_block_rate" -> SafetyRates
      [] f = "token_efficiency"  -> TokenEfficiencies

\* One call of calculate_health_score(**s); the previous call is remembered so
\* that two calls can be compared.
CallHealthScore(s) ==
    /\ snapshot' = s
    /\ scores' = calculate_health_score(s)
    /\ prev_snapshot' = snapshot
    /\ prev_scores' = scores
    /\ UNCHANGED <<clientVars, attrVars, routerVars, mlVars, optVars>>

\* The first call takes any snapshot.
FirstHealthCall ==
    /\ snapshot = None
    /\ \E s \in Snapshots : CallHealthScore(s)

\* A later call repeats the snapshot or changes one of its fields.
NextHealthCall ==
    /\ snapshot # None
    /\ \E f \in SnapshotFields : \E v \in FieldValues(f) :
          CallHealthScore([snapshot EXCEPT ![f] = v])

HealthIdle ==
    /\ snapshot = None
    /\ scores = None
    /\ prev_snapshot = None
    /\ prev_scores = None

(***************************************************************************)
(*                      AnomalyAttributionEngine                           *)
(***************************************************************************)

\* One entry of a dimension breakdown (anomaly_attribution_engine.py 276-282).
Entry(name, baseline, analysis, change, contribution) ==
    [name |-> name, baseline_value |-> baseline, analysis_value |-> analysis,
     change_pct |-> change, contribution_pct |-> contribution]

Dimensions == <<"endpoint", "model", "request_type">>

\* anomaly_attribution_engine.py 121 and 274:
\* (analysis - baseline) / baseline * 100 if baseline > 0 else 0, in tenths.
change_percentage(anomaly_value, baseline_value) ==
    IF baseline_value > 0
    THEN ((anomaly_value - baseline_value) * 1000) \div baseline_value
    ELSE 0

\* The words _simulate_metric_comparison and _classify_anomaly_type look for
\* in the metric name ("cost" in metric_name), by metric.
MetricNames ==
    {"llm.cost.usd", "llm.latency.ms", "llm.error.count",
     "llm.quality.score", "llm.tokens.total"}

Contains(metric_name, word) ==
    CASE metric_name = "llm.cost.usd"      -> word = "cost"
      [] metric_name = "llm.latency.ms"    -> word = "latency"
      [] metric_name = "llm.error.count"   -> word = "error"
      [] metric_name = "llm.quality.score" -> word = "quality"
      [] OTHER                             -> FALSE

\* anomaly_attribution_engine.py 289-298: (anomaly_value, baseline_value),
\* in thousandths (0.015 is 15, 2500.0 is 2500000).
_simulate_metric_comparison(metric_name) ==
    IF Contains(metric_name, "cost") THEN <<15, 8>>
    ELSE IF Contains(metric_name, "latency") THEN <<2500000, 800000>>
    ELSE IF Contains(metric_name, "error") THEN <<150, 20>>
    ELSE <<100000, 50000>>

\* anomaly_attribution_engine.py 300-317 (values in thousandths).
_simulate_breakdown(dimension) ==
    IF dimension = "endpoint" THEN
        << Entry("/stress", 2, 8, 3000, 45),
           Entry("/qa", 3, 5, 667, 30),
           Entry("/reason", 2, 2, 0, 15) >>
    ELSE IF dimension = "model" THEN
        << Entry("gemini-2.5-flash", 4, 10, 1500, 60),
           Entry("gemini-1.5-pro", 3, 5, 667, 40) >>
    ELSE
        << Entry("stress", 2, 8, 3000, 50),
           Entry("qa", 3, 4, 333, 30) >>

\* anomaly_attribution_engine.py 319-330.
_classify_anomaly_type(metric_name, change_pct) ==
    IF Contains(metric_name, "cost") THEN "cost_spike"
    ELSE IF Contains(metric_name, "latency") THEN "latency_spike"
    ELSE IF Contains(metric_name, "error") THEN "error_burst"
    ELSE IF Contains(metric_name, "quality") THEN "quality_drop"
    ELSE "metric_anomaly"

\* anomaly_attribution_engine.py 343-374: the significant entries of one
\* breakdown, tagged with their dimension.
SignificantChanges(dimension, breakdown) ==
    LET Significant(item) == Abs(item.change_pct) > 100
        kept == SelectSeq(breakdown, Significant)
    IN  [i \in 1..Len(kept) |->
            [dimension        |-> dimension,
             name             |-> kept[i].name,
             change_pct       |-> kept[i].change_pct,
             contribution_pct |-> kept[i].contribution_pct,
             baseline         |-> kept[i].baseline_value,
             analysis         |-> kept[i].analysis_value]]

\* all_changes after the three loops: endpoint, then model, then request type.
AllChanges(endpoint_breakdown, model_breakdown, request_type_breakdown) ==
       SignificantChanges("endpoint", endpoint_breakdown)
    \o SignificantChanges("model", model_breakdown)
    \o SignificantChanges("request_type", request_type_breakdown)

\* A max that returns the last of several maximal entries, not the first.
MaxByAbsChangeLast(changes) ==
    changes[CHOOSE i \in 1..Len(changes) :
                /\ \A j \in 1..Len(changes) :
                      Abs(changes[j].change_pct) <= Abs(changes[i].change_pct)
                /\ \A j \in (i + 1)..Len(changes) :
                      Abs(changes[j].change_pct) < Abs(changes[i].change_pct)]

\* Python's max(all_changes, key=lambda x: abs(x['change_pct'])): the first
\* of the entries with the largest key (line 385).
MaxByAbsChange(changes) ==
    changes[CHOOSE i \in 1..Len(changes) :
                /\ \A j \in 1..Len(changes) :
                      Abs(changes[j].change_pct) <= Abs(changes[i].change_pct)
                /\ \A j \in 1..(i - 1) :
                      Abs(changes[j].change_pct) < Abs(changes[i].change_pct)]

\* anomaly_attribution_engine.py 388:
\* min(0.95, 0.5 + contribution/100 * 0.3 + min(|change|, 200)/200 * 0.15).
PrimaryConfidence(primary) ==
    Min(57000000,
        30000000 + primary.contribution_pct * 180000
                 + Min(Abs(primary.change_pct), 2000) * 4500)

\* anomaly_attribution_engine.py 332-400: <<primary_cause, confidence>>.
_identify_primary_cause(endpoint_breakdown, model_breakdown, request_type_breakdown, total_change_pct) ==
    LET all_changes == AllChanges(endpoint_breakdown, model_breakdown,
                                  request_type_breakdown)
    IN  IF all_changes = <<>>
        THEN << [dimension   |-> "unknown",
                 name        |-> "unknown",
                 description |-> <<"Unable to identify primary cause">>,
                 change_pct  |-> total_change_pct],
                18000000 >>
        ELSE LET primary == MaxByAbsChange(all_changes)
             IN << [dimension   |-> primary.dimension,
                    name        |-> primary.name,
                    description |->
                        <<"Anomaly caused by", Abs(primary.change_pct),
                          IF primary.change_pct > 0 THEN "increase" ELSE "decrease",
                          primary.dimension, primary.name>>,
                    change_pct       |-> primary.change_pct,
                    contribution_pct |-> primary.contribution_pct,
                    baseline_value   |-> primary.baseline,
                    analysis_value   |-> primary.analysis],
                   PrimaryConfidence(primary) >>

\* The factor loop with its threshold at the significance threshold's value,
\* met from 10% on.
FactorsOfLoose(dimension, breakdown, primary_cause) ==
    LET Other(item) == /\ item.name # primary_cause.name
                       /\ Abs(item.change_pct) >= 100
        kept == SelectSeq(breakdown, Other)
    IN  [i \in 1..Len(kept) |->
            [dimension        |-> dimension,
             name             |-> kept[i].name,
             description      |-> <<kept[i].name, dimension, "contributed",
                                    kept[i].contribution_pct, kept[i].change_pct>>,
             change_pct       |-> kept[i].change_pct,
             contribution_pct |-> kept[i].contribution_pct,
             confidence       |-> Min(48000000,
                                      24000000 + kept[i].contribution_pct * 240000)]]

\* anomaly_attribution_engine.py 413-433: the factors one loop appends.
FactorsOf(dimension, breakdown, primary_cause) ==
    LET Other(item) == /\ item.name # primary_cause.name
                       /\ Abs(item.change_pct) > 150
        kept == SelectSeq(breakdown, Other)
    IN  [i \in 1..Len(kept) |->
            [dimension        |-> dimension,
             name             |-> kept[i].name,
             description      |-> <<kept[i].name, dimension, "contributed",
                                    kept[i].contribution_pct, kept[i].change_pct>>,
             change_pct       |-> kept[i].change_pct,
             contribution_pct |-> kept[i].contribution_pct,
             confidence       |-> Min(48000000,
                                      24000000 + kept[i].contribution_pct * 240000)]]

\* sorted(seq, key=lambda x: abs(x['change_pct']), reverse=True): stable, so
\* entries of equal key keep their order.
RECURSIVE InsertByAbsChange(_, _)
InsertByAbsChange(sorted, x) ==
    IF sorted = <<>> THEN <<x>>
    ELSE IF Abs(Head(sorted).change_pct) >= Abs(x.change_pct)
         THEN <<Head(sorted)>> \o InsertByAbsChange(Tail(sorted), x)
    ELSE <<x>> \o sorted

RECURSIVE SortByAbsChange(_)
SortByAbsChange(seq) ==
    IF seq = <<>> THEN <<>>
    ELSE InsertByAbsChange(SortByAbsChange(SubSeq(seq, 1, Len(seq) - 1)),
                           seq[Len(seq)])

\* The first three factors in the order the loops found them.
_identify_contributing_factors_unsorted(endpoint_breakdown, model_breakdown, request_type_breakdown, primary_cause) ==
    LET factors == FactorsOf("endpoint", endpoint_breakdown, primary_cause)
                   \o FactorsOf("model", model_breakdown, primary_cause)
    IN  SubSeq(factors, 1, Min(3, Len(factors)))

\* anomaly_attribution_engine.py 402-435: the endpoint and the model breakdown
\* are scanned, the request-type breakdown is not; then sorted(...)[:3].
_identify_contributing_factors(endpoint_breakdown, model_breakdown, request_type_breakdown, primary_cause) ==
    LET factors == FactorsOf("endpoint", endpoint_breakdown, primary_cause)
                   \o FactorsOf("model", model_breakdown, primary_cause)
        ranked  == SortByAbsChange(factors)
    IN  SubSeq(ranked, 1, Min(3, Len(ranked)))

RECURSIVE SumConfidence(_)
SumConfidence(factors) ==
    IF factors = <<>> THEN 0
    ELSE Head(factors).confidence + SumConfidence(Tail(factors))

\* The boost of line 454 without its min(0.95, ...).
BoostUncapped(confidence) == confidence + 3000000

\* anomaly_attribution_engine.py 454: min(0.95, confidence + 0.05).
Boost(confidence) == Min(57000000, confidence + 3000000)

\* anomaly_attribution_engine.py 437-456.
_calculate_total_confidence(primary_confidence, contributing_factors, change_pct) ==
    LET blended ==
            IF contributing_factors # <<>>
            THEN LET avg_factor_confidence ==
                         SumConfidence(contributing_factors)
                             \div Len(contributing_factors)
                 IN  (primary_confidence * 7) \div 10
                         + (avg_factor_confidence * 3) \div 10
            ELSE primary_confidence
    IN  IF Abs(change_pct) > 500 THEN Boost(blended) ELSE blended

\* anomaly_attribution_engine.py 458-469.
_determine_severity(change_pct, anomaly_type) ==
    LET abs_change == Abs(change_pct)
    IN  IF abs_change > 2000 THEN "critical"
        ELSE IF abs_change > 1000 THEN "high"
        ELSE IF abs_change > 500 THEN "medium"
        ELSE "low"

\* [item['name'] for item in breakdown if item['change_pct'] > 10] (142-143).
AffectedNames(breakdown) ==
    LET Risen(item) == item.change_pct > 100
        kept == SelectSeq(breakdown, Risen)
    IN  [i \in 1..Len(kept) |-> kept[i].name]

\* anomaly_attribution_engine.py 97-118: the data attribute_anomaly works on,
\* fetched when datadog_enabled and simulated otherwise.
MetricData(self, t) ==
    IF self.datadog_enabled
    THEN [anomaly_value  |-> t.anomaly_value,
          baseline_value |-> t.baseline_value,
          endpoint       |-> t.endpoint,
          model          |-> t.model,
          request_type   |-> t.request_type]
    ELSE [anomaly_value  |-> _simulate_metric_comparison(t.metric_name)[1],
          baseline_value |-> _simulate_metric_comparison(t.metric_name)[2],
          endpoint       |-> _simulate_breakdown("endpoint"),
          model          |-> _simulate_breakdown("model"),
          request_type   |-> _simulate_breakdown("request_type")]

\* anomaly_attribution_engine.py 73-165 (anomaly_id, detected_at and
\* time_window, which only format the arguments, are left out).
attribute_anomaly(self, t) ==
    LET d       == MetricData(self, t)
        change  == change_percentage(d.anomaly_value, d.baseline_value)
        type    == _classify_anomaly_type(t.metric_name, change)
        primary == _identify_primary_cause(d.endpoint, d.model,
                                           d.request_type, change)
        factors == _identify_contributing_factors(d.endpoint, d.model,
                                                  d.request_type, primary[1])
    IN  [anomaly_type         |-> type,
         severity             |-> _determine_severity(change, type),
         primary_cause        |-> primary[1],
         contributing_factors |-> factors,
         total_confidence     |->
             _calculate_total_confidence(primary[2], factors, change),
         baseline_value       |-> d.baseline_value,
         anomalous_value      |-> d.anomaly_value,
         change_percentage    |-> change,
         affected_endpoints   |-> AffectedNames(d.endpoint),
         affected_models      |-> AffectedNames(d.model)]

(***************************************************************************)
(*                              ModelRouter                                *)
(***************************************************************************)

\* n/d rounded to the nearest integer, a tie to the even one (Python's round).
RoundDiv(n, d) ==
    LET q == n \div d
        r == n % d
    IN  IF 2 * r < d THEN q
        ELSE IF 2 * r > d THEN q + 1
        ELSE q + (q % 2)

\* model_router.py 45-62: the registry, in the dict's insertion order.  Costs
\* per token in micro-dollars, quality in hundredths.
ModelNames == <<"gemini-1.5-flash", "gemini-1.5-pro">>

Models ==
    [name \in {"gemini-1.5-flash", "gemini-1.5-pro"} |->
        IF name = "gemini-1.5-flash"
        THEN [name |-> name, cost_per_1k_tokens_input |-> 75,
              cost_per_1k_tokens_output |-> 300, avg_latency_ms |-> 200,
              quality_score |-> 75, max_tokens |-> 8192]
        ELSE [name |-> name, cost_per_1k_tokens_input |-> 1250,
              cost_per_1k_tokens_output |-> 5000, avg_latency_ms |-> 800,
              quality_score |-> 90, max_tokens |-> 8192]]

\* model_router.py 40-69: ModelRouter().
NewRouter ==
    [models          |-> Models,
     routing_history |-> <<>>,
     routing_stats   |-> [total_routes |-> 0, cost_savings |-> 0,
                          quality_maintained |-> 0]]

\* A value returned, or an exception leaving the function.
Return(v)  == [raised |-> FALSE, value |-> v]
Raise(exc) == [raised |-> TRUE, error |-> exc]

\* model_router.py 124-127 and 277-280: the cost of a request on a model.
TokenCost(model_spec, input_tokens, output_tokens) ==
    input_tokens * model_spec.cost_per_1k_tokens_input
        + output_tokens * model_spec.cost_per_1k_tokens_output

\* model_router.py 227-254.
_predict_required_quality(request_type, input_tokens) ==
    LET table == CASE request_type = "qa"       -> 85
                   [] request_type = "reason"   -> 90
                   [] request_type = "stress"   -> 70
                   [] request_type = "insights" -> 80
                   [] OTHER                     -> 80
        base_quality == IF input_tokens > 2000 THEN table + 5
                        ELSE IF input_tokens < 200 THEN table - 5
                        ELSE table
    IN  Max(50, Min(100, base_quality))

\* model_router.py 283.
QualityThreshold(required_quality, min_quality) ==
    Max(required_quality, min_quality)

\* model_router.py 283-289: the quality term of the score.
QualityTerm(model_spec, required_quality, min_quality) ==
    LET quality_threshold == QualityThreshold(required_quality, min_quality)
    IN  IF model_spec.quality_score >= quality_threshold
        THEN 400000
        ELSE (400000 * model_spec.quality_score) \div quality_threshold

\* model_router.py 292-298: the latency term; (x - max_latency) / max_latency
\* divides by zero when max_latency is 0 and the model is slower.
LatencyTerm(model_spec, max_latency) ==
    IF model_spec.avg_latency_ms <= max_latency
    THEN Return(300000)
    ELSE IF max_latency = 0
         THEN Raise("ZeroDivisionError")
    ELSE Return(Max(0, (300000 * (2 * max_latency - model_spec.avg_latency_ms))
                           \div max_latency))

\* model_router.py 301-305: cost_score, which nothing reads afterwards;
\* (actual_cost - cost_budget) / cost_budget divides by zero on a zero budget.
\* Its value is kept to the thousandth.
CostScore(actual_cost, cost_budget) ==
    IF actual_cost <= cost_budget
    THEN Return(1000000)
    ELSE IF cost_budget = 0
         THEN Raise("ZeroDivisionError")
    ELSE IF actual_cost >= 2 * cost_budget
         THEN Return(0)
    ELSE Return(1000000
                  - 1000 * (((actual_cost - cost_budget) * 1000) \div cost_budget))

\* model_router.py 308-309: 1 / (1 + actual_cost * 100), times 0.3.  Every
\* registry cost is a multiple of 25 micro-dollars, which keeps the quotient
\* within the integers checked: 0.3 * 400 / (400 + actual_cost / 25).
CostEfficiencyTerm(actual_cost) ==
    120000000 \div (400 + actual_cost \div 25)

\* model_router.py 256-311.
_calculate_ml_model_score(model_spec, required_quality, min_quality, max_latency, cost_budget, input_tokens, output_tokens) ==
    LET actual_cost == TokenCost(model_spec, input_tokens, output_tokens)
        latency     == LatencyTerm(model_spec, max_latency)
        cost        == CostScore(actual_cost, cost_budget)
    IN  IF latency.raised THEN latency
        ELSE IF cost.raised THEN cost
        ELSE Return(QualityTerm(model_spec, required_quality, min_quality)
                        + latency.value
                        + CostEfficiencyTerm(actual_cost))

\* max(model_scores, key=model_scores.get) that keeps the last of equal scores.
BestModelLast(model_scores) ==
    ModelNames[CHOOSE i \in 1..Len(ModelNames) :
        /\ \A j \in 1..Len(ModelNames) :
              model_scores[ModelNames[j]] <= model_scores[ModelNames[i]]
        /\ \A j \in (i + 1)..Len(ModelNames) :
              model_scores[ModelNames[j]] < model_scores[ModelNames[i]]]

\* model_router.py 203: max(model_scores, key=model_scores.get), the first
\* key in insertion order among those of the largest score.
BestModel(model_scores) ==
    ModelNames[CHOOSE i \in 1..Len(ModelNames) :
        /\ \A j \in 1..Len(ModelNames) :
              model_scores[ModelNames[j]] <= model_scores[ModelNames[i]]
        /\ \A j \in 1..(i - 1) :
              model_scores[ModelNames[j]] < model_scores[ModelNames[i]]]

\* model_router.py 313-349: the reasons the string is assembled from.
_generate_ml_reasoning(self, selected_model, model_scores, required_quality, min_quality, max_latency, cost_budget) ==
    LET model_spec == self.models[selected_model]
        lowest     == Min(model_scores[ModelNames[1]], model_scores[ModelNames[2]])
        score_diff == model_scores[selected_model] - lowest
    IN  << "ML Router selected", selected_model,
           IF model_spec.quality_score >= required_quality
           THEN <<"Quality requirement met", required_quality>>
           ELSE <<"Quality acceptable", model_spec.quality_score>>,
           IF model_spec.avg_latency_ms <= max_latency
           THEN <<"Latency constraint satisfied", max_latency>>
           ELSE <<"Latency acceptable", model_spec.avg_latency_ms>>,
           "Cost-optimized selection",
           IF score_diff > 200000
           THEN "High ML confidence in selection"
           ELSE "ML-based selection with moderate confidence" >>

\* model_router.py 189-200: the score of every model of the registry.
ModelScores(self, required_quality, min_quality, max_latency, cost_budget, input_tokens, output_tokens) ==
    [name \in DOMAIN self.models |->
        _calculate_ml_model_score(self.models[name], required_quality,
                                  min_quality, max_latency, cost_budget,
                                  input_tokens, output_tokens)]

\* model_router.py 168-225.
_ml_route(self, request_type, input_tokens, output_tokens, max_latency, min_quality, cost_budget) ==
    LET required_quality == _predict_required_quality(request_type, input_tokens)
        scored == ModelScores(self, required_quality, min_quality, max_latency,
                              cost_budget, input_tokens, output_tokens)
        failed == {i \in 1..Len(ModelNames) : scored[ModelNames[i]].raised}
    IN  IF failed # {}
        THEN \* the loop stops at the first model whose score raises
             scored[ModelNames[CHOOSE i \in failed : \A j \in failed : i <= j]]
        ELSE LET model_scores == [name \in DOMAIN scored |-> scored[name].value]
                 best_model   == BestModel(model_scores)
                 second       == Min(model_scores[ModelNames[1]],
                                     model_scores[ModelNames[2]])
             IN  Return(
                   [selected_model |-> best_model,
                    reasoning      |->
                        _generate_ml_reasoning(self, best_model, model_scores,
                                               required_quality, min_quality,
                                               max_latency, cost_budget),
                    confidence     |->
                        700000 + Min(250000,
                                     (model_scores[best_model] - second) \div 2),
                    model_scores   |-> model_scores])

\* A rule-based route that stays on the premium model once the router's last
\* recorded decision chose it.
_rule_based_route_sticky(self, request_type, input_tokens, output_tokens, max_latency, min_quality, cost_budget) ==
    LET history  == self.routing_history
        selected ==
            IF min_quality > 85 THEN "gemini-1.5-pro"
            ELSE IF /\ history # <<>>
                    /\ history[Len(history)].selected_model = "gemini-1.5-pro"
                 THEN "gemini-1.5-pro"
            ELSE "gemini-1.5-flash"
    IN  Return([selected_model |-> selected,
                reasoning      |-> <<"Rule-based: Selected", selected,
                                     "based on quality requirement">>,
                confidence     |-> 600000])

\* model_router.py 351-371.
_rule_based_route(self, request_type, input_tokens, output_tokens, max_latency, min_quality, cost_budget) ==
    LET selected == IF min_quality > 85 THEN "gemini-1.5-pro"
                    ELSE "gemini-1.5-flash"
    IN  Return([selected_model |-> selected,
                reasoning      |-> <<"Rule-based: Selected", selected,
                                     "based on quality requirement">>,
                confidence     |-> 600000])

\* A truncation that keeps the oldest records instead of the newest.
KeepFirst(history, limit) ==
    IF Len(history) > limit THEN SubSeq(history, 1, limit) ELSE history

\* model_router.py 150-151: self.routing_history[-1000:] once it is longer.
KeepLast(history, limit) ==
    IF Len(history) > limit
    THEN SubSeq(history, Len(history) - limit + 1, Len(history))
    ELSE history

\* model_router.py 149-151.
HistoryLimit == 1000

\* model_router.py 71-166: the router after the call, the outcome of the call
\* and, when a record was appended, that record.
route_request(self, request, use_ml) ==
    LET counted == [self EXCEPT !.routing_stats.total_routes = @ + 1]
        routing_decision ==
            IF use_ml
            THEN _ml_route(counted, request.request_type,
                           request.estimated_input_tokens,
                           request.estimated_output_tokens,
                           request.max_latency_ms, request.min_quality,
                           request.cost_budget)
            ELSE _rule_based_route(counted, request.request_type,
                                   request.estimated_input_tokens,
                                   request.estimated_output_tokens,
                                   request.max_latency_ms, request.min_quality,
                                   request.cost_budget)
    IN  IF routing_decision.raised
        THEN [self |-> counted, outcome |-> routing_decision, appended |-> <<>>]
        ELSE
          LET decision       == routing_decision.value
              selected_model == counted.models[decision.selected_model]
              estimated_cost == TokenCost(selected_model,
                                          request.estimated_input_tokens,
                                          request.estimated_output_tokens)
              premium_cost   == TokenCost(counted.models["gemini-1.5-pro"],
                                          request.estimated_input_tokens,
                                          request.estimated_output_tokens)
              cost_savings   == premium_cost - estimated_cost
              routing_record ==
                  [request_id     |-> request.request_id,
                   selected_model |-> decision.selected_model,
                   estimated_cost |-> estimated_cost,
                   cost_savings   |-> cost_savings,
                   reasoning      |-> decision.reasoning,
                   ml_confidence  |-> decision.confidence]
          IN  [self |->
                  [counted EXCEPT
                      !.routing_stats.cost_savings = @ + cost_savings,
                      !.routing_history =
                          KeepLast(Append(@, routing_record), HistoryLimit)],
               outcome |-> Return(
                  [selected_model |-> decision.selected_model,
                   model_specs    |->
                       [cost_per_request     |-> estimated_cost,
                        estimated_latency_ms |-> selected_model.avg_latency_ms,
                        expected_quality     |-> selected_model.quality_score,
                        max_tokens           |-> selected_model.max_tokens],
                   reasoning      |-> decision.reasoning,
                   cost_savings   |-> cost_savings,
                   cost_savings_percentage |->
                       IF premium_cost > 0
                       THEN RoundDiv((cost_savings \div 25) * 1000,
                                     premium_cost \div 25)
                       ELSE 0,
                   ml_confidence  |-> decision.confidence,
                   routing_method |-> IF use_ml THEN "ml_based" ELSE "rule_based"]),
               appended |-> <<routing_record>>]

(***************************************************************************)
(*                              CostPredictor                              *)
(*                                                                         *)
(* Costs and budgets in 1e-4 dollar, confidences in hundredths.  A fitted  *)
(* regressor is kept by what it predicts: the histories trained on here    *)
(* have the same cost_usd in every sample, and a regressor fitted on a     *)
(* constant target predicts that constant for any features.                *)
(***************************************************************************)

\* dict.get(key, default) on a record.
Get(d, key, default) == IF key \in DOMAIN d THEN d[key] ELSE default

\* A value arithmetic raises TypeError on (None, a string), kept as an integer
\* no metric takes.
NotANumber == -999999

\* The files models/cost_predictor.pkl and models/cost_scaler.pkl.
NoFile           == [kind |-> "absent", hourly_cost |-> 0]
CorruptFile      == [kind |-> "corrupt", hourly_cost |-> 0]
PickleFile(cost) == [kind |-> "pickle", hourly_cost |-> cost]

\* ml_cost_predictor.py 56-61, 69: the estimator and the scaler as constructed.
UnfittedModel  == [fitted |-> FALSE, hourly_cost |-> 0]
UnfittedScaler == [fitted |-> FALSE]

\* ml_cost_predictor.py 309-320.
_load_model(self) ==
    IF self.disk.model.kind = "absent" \/ self.disk.scaler.kind = "absent"
        THEN self
    ELSE IF self.disk.model.kind = "corrupt" THEN self
    ELSE LET loaded == [self EXCEPT
                           !.model = [fitted      |-> TRUE,
                                      hourly_cost |-> self.disk.model.hourly_cost]]
         IN  IF self.disk.scaler.kind = "corrupt" THEN loaded
             ELSE [loaded EXCEPT !.scaler = [fitted |-> TRUE],
                                 !.is_trained = TRUE]

\* ml_cost_predictor.py 40-75: CostPredictor(); a disabled predictor has the
\* enabled attribute only.  disk is what the models directory holds.
CostPredictor__init__(ml_available, disk) ==
    IF ~ml_available THEN [enabled |-> FALSE, disk |-> disk]
    ELSE _load_model([enabled    |-> TRUE,
                      model_type |-> "gradient_boosting",
                      model      |-> UnfittedModel,
                      scaler     |-> UnfittedScaler,
                      is_trained |-> FALSE,
                      disk       |-> disk])

\* ml_cost_predictor.py 298-307.
_save_model(self) ==
    IF ~self.disk.writable THEN self
    ELSE [self EXCEPT !.disk.model  = PickleFile(self.model.hourly_cost),
                      !.disk.scaler = PickleFile(0)]

\* train_test_split(test_size=0.2): the test share, rounded up.
TestSamples(n) == (n + 4) \div 5

\* A train that forgets the fitted state before it looks at the data.
train_resetting(self, historical_data) ==
    IF ~self.enabled
    THEN [self |-> self,
          outcome |-> Return([error |-> "Not enough data to train model"])]
    ELSE [self |-> [self EXCEPT !.is_trained = FALSE],
          outcome |-> Return([error |-> "Not enough data to train model"])]

\* ml_cost_predictor.py 77-145; historical_data is [samples, cost_usd]: that
\* many data points, each of that cost.
train(self, historical_data) ==
    IF ~self.enabled \/ historical_data.samples < 10
    THEN [self |-> self,
          outcome |-> Return([error |-> "Not enough data to train model"])]
    ELSE LET fitted == [self EXCEPT
                           !.scaler = [fitted |-> TRUE],
                           !.model  = [fitted      |-> TRUE,
                                       hourly_cost |-> historical_data.cost_usd],
                           !.is_trained = TRUE]
         IN  [self |-> _save_model(fitted),
              outcome |-> Return(
                  [status           |-> "trained",
                   mae              |-> 0,
                   r2_score         |-> 100,
                   training_samples |-> historical_data.samples
                                           - TestSamples(historical_data.samples),
                   test_samples     |-> TestSamples(historical_data.samples)])]

\* ml_cost_predictor.py 241-282.
CostRecommendations(predicted_cost, budget, risk_level, current_metrics) ==
    IF risk_level \notin {"critical", "high"} THEN <<>>
    ELSE (IF Get(current_metrics, "avg_input_tokens", 0) > 1000
          THEN << [priority          |-> "high",
                   action            |-> "Optimize prompts to reduce input tokens",
                   estimated_savings |-> <<"tokens saved per request",
                                           current_metrics.avg_input_tokens - 800>>,
                   impact            |-> "20-30% cost reduction",
                   ml_confidence     |-> 88] >>
          ELSE <<>>)
         \o
         (IF Get(current_metrics, "request_count", 0) > 1000
          THEN << [priority          |-> "high",
                   action            |-> "Enable response caching for repeated queries",
                   estimated_savings |-> <<"20% of", predicted_cost>>,
                   impact            |-> "Significant cost reduction",
                   ml_confidence     |-> 92] >>
          ELSE <<>>)
         \o
         << [priority          |-> IF risk_level = "critical" THEN "critical"
                                   ELSE "high",
             action            |-> "Consider model downgrade for non-critical requests",
             estimated_savings |-> <<"40% of", predicted_cost>>,
             impact            |-> "Major cost savings",
             ml_confidence     |-> 90] >>

\* A projection over one hour instead of 24.
_simple_prediction_hourly(current_metrics, budget) ==
    LET current_cost  == Get(current_metrics, "cost_per_request", 10)
        request_count == Get(current_metrics, "request_count", 100)
    IN  IF current_cost = NotANumber \/ request_count = NotANumber
        THEN Raise("TypeError")
        ELSE LET predicted_24h == current_cost * request_count
             IN  Return([predicted_cost_24h |-> predicted_24h,
                         budget_risk |-> IF predicted_24h * 10 > budget * 9
                                         THEN "high" ELSE "medium",
                         method      |-> "simple_projection"])

\* ml_cost_predictor.py 284-296.
_simple_prediction(current_metrics, budget) ==
    LET current_cost  == Get(current_metrics, "cost_per_request", 10)
        request_count == Get(current_metrics, "request_count", 100)
    IN  IF current_cost = NotANumber \/ request_count = NotANumber
        THEN Raise("TypeError")
        ELSE LET predicted_24h == current_cost * request_count * 24
             IN  Return([predicted_cost_24h |-> predicted_24h,
                         budget_risk |-> IF predicted_24h * 10 > budget * 9
                                         THEN "high" ELSE "medium",
                         method      |-> "simple_projection"])

\* ml_cost_predictor.py 208-218.
BudgetRisk(total_predicted, daily_budget) ==
    IF daily_budget <= 0 THEN "low"
    ELSE IF total_predicted > daily_budget THEN "critical"
    ELSE IF total_predicted * 10 > daily_budget * 9 THEN "high"
    ELSE IF total_predicted * 10 > daily_budget * 7 THEN "medium"
    ELSE "low"

\* ml_cost_predictor.py 174-204: the entry of hourly_breakdown for one
\* hour_offset.  The fitted regressor outputs hourly_cost for every feature
\* row, and the entry reports that output as it is; request_count, in
\* hundredths of a request, is the given count times 1 + 0.01 * hour_offset.
\* The hour and day of the clock are left out.
HourlyDetail(self, current_metrics, hour_offset) ==
    [hour_offset    |-> hour_offset,
     predicted_cost |-> self.model.hourly_cost,
     request_count  |->
         Get(current_metrics, "request_count", 100) * (100 + hour_offset)]

\* ml_cost_predictor.py 171-206: the 24 entries of hourly_details.
HourlyDetails(self, current_metrics) ==
    [i \in 1..24 |-> HourlyDetail(self, current_metrics, i - 1)]

\* ml_cost_predictor.py 196-206: sum(predictions), where each prediction is
\* max(0, pred).
RECURSIVE SumPredictions(_)
SumPredictions(hourly_details) ==
    IF hourly_details = <<>> THEN 0
    ELSE Max(0, Head(hourly_details).predicted_cost)
             + SumPredictions(Tail(hourly_details))

\* ml_cost_predictor.py 233: max(hourly_details, key=predicted_cost), the
\* first entry of the greatest predicted_cost.
PeakHour(hourly_details) ==
    LET peak == CHOOSE i \in 1..Len(hourly_details) :
                    /\ \A j \in 1..Len(hourly_details) :
                          hourly_details[j].predicted_cost
                              <= hourly_details[i].predicted_cost
                    /\ \A j \in 1..(i - 1) :
                          hourly_details[j].predicted_cost
                              < hourly_details[i].predicted_cost
    IN  hourly_details[peak]

\* ml_cost_predictor.py 147-239.  budget_utilization in tenths of a percent.
predict_next_24h(self, current_metrics, daily_budget) ==
    IF ~self.enabled \/ ~self.is_trained
    THEN LET fallback == _simple_prediction(current_metrics, daily_budget)
         IN  IF fallback.raised THEN fallback
             ELSE Return([error               |-> "Model not trained",
                          fallback_prediction |-> fallback.value])
    ELSE IF Get(current_metrics, "request_count", 100) = NotANumber
        THEN Raise("TypeError")
    ELSE LET hourly_details  == HourlyDetails(self, current_metrics)
             total_predicted == SumPredictions(hourly_details)
             risk_level      == BudgetRisk(total_predicted, daily_budget)
         IN  Return(
                [predicted_cost_24h |-> total_predicted,
                 current_budget     |-> daily_budget,
                 budget_utilization |->
                     IF daily_budget > 0
                     THEN RoundDiv(total_predicted * 1000, daily_budget)
                     ELSE 0,
                 budget_risk        |-> risk_level,
                 confidence         |-> 85,
                 hourly_breakdown   |-> hourly_details,
                 peak_hour          |-> PeakHour(hourly_details),
                 recommendations    |->
                     CostRecommendations(total_predicted, daily_budget,
                                         risk_level, current_metrics),
                 ml_model           |-> self.model_type,
                 model_accuracy     |-> "85%"])

(***************************************************************************)
(*                            QualityPredictor                             *)
(*                                                                         *)
(* Similarities, drift and quality in 1e-4, rounded outputs in thousandths *)
(* (round(x, 3)) or hundredths (round(x, 2)).  The sentence transformer is *)
(* kept by what the code computes from its embeddings: a batch of texts is *)
(* its length, whether encode accepts it, the cosine similarity of its     *)
(* centroid to the baseline's, and the per-text mean similarities to the   *)
(* baseline, here first_similarity + slope * i for text i = 0, 1, ...      *)
(***************************************************************************)

\* float('nan'), which every comparison answers False on, kept as an integer
\* no similarity takes.
NaN == -888888

\* baseline_embeddings: the list set at construction or unpickled, or the
\* array encode returns.
EmptyList           == [kind |-> "list", rows |-> 0]
VectorList(rows)    == [kind |-> "list", rows |-> rows]
EmbeddingArray(rows) == [kind |-> "ndarray", rows |-> rows]

\* bool(x) of a list or of a numpy array of 384-wide rows: an array of more
\* than one element has no truth value (ValueError).
Truth(embeddings) ==
    IF embeddings.kind = "list" THEN Return(embeddings.rows > 0)
    ELSE IF embeddings.rows = 0 THEN Return(FALSE)
    ELSE Raise("ValueError")

\* ml_quality_predictor.py 37-62 and 319-329: QualityPredictor(); pickled is
\* None when models/quality_predictor.pkl is absent or does not unpickle, else
\* the baseline_embeddings of the state it holds.
QualityPredictor__init__(transformers_available, model_loads, pickled) ==
    IF ~transformers_available \/ ~model_loads THEN [enabled |-> FALSE]
    ELSE [enabled             |-> TRUE,
          baseline_embeddings |-> IF pickled = None THEN EmptyList ELSE pickled,
          quality_history     |-> <<>>]

\* ml_quality_predictor.py 64-97 (the mean and spread of the pairwise
\* similarities are those of the batch).
establish_baseline(self, reference_responses) ==
    IF ~self.enabled
    THEN [self |-> self,
          outcome |-> Return([error |-> "Quality predictor not enabled"])]
    ELSE IF reference_responses.count < 5
    THEN [self |-> self,
          outcome |-> Return([error |-> "Need at least 5 reference responses"])]
    ELSE IF ~reference_responses.encodable
    THEN [self |-> self, outcome |-> Return([error |-> "TypeError"])]
    ELSE [self |-> [self EXCEPT !.baseline_embeddings =
                        EmbeddingArray(reference_responses.count)],
          outcome |-> Return(
              [status                   |-> "baseline_established",
               baseline_samples         |-> reference_responses.count,
               baseline_mean_similarity |->
                   RoundDiv(reference_responses.first_similarity, 10),
               baseline_std             |-> 0])]

\* ml_quality_predictor.py 217-263; qualities in 1e-4, current_quality doubled.
QualityRecommendations(current_quality_x2, predicted_quality, trend, risk) ==
    (IF risk = "critical"
     THEN << [priority      |-> "critical",
              action        |-> "Immediate model rollback recommended",
              reason        |-> <<"Quality predicted to drop to",
                                  predicted_quality>>,
              ml_confidence |-> 92,
              impact        |-> "Prevent quality degradation"] >>
     ELSE <<>>)
    \o
    (IF trend = "degrading"
     THEN << [priority      |-> "high",
              action        |-> "Review and update prompt engineering",
              reason        |-> <<"ML detected degrading quality trend", 0>>,
              ml_confidence |-> 88,
              impact        |-> "Stabilize quality trend"] >>
          \o (IF current_quality_x2 < 14000
              THEN << [priority      |-> "high",
                       action        |-> "Consider A/B testing different prompt strategies",
                       reason        |-> <<"Current quality below acceptable threshold", 0>>,
                       ml_confidence |-> 85,
                       impact        |-> "Improve quality scores"] >>
              ELSE <<>>)
     ELSE <<>>)
    \o
    (IF predicted_quality < 6000
     THEN << [priority      |-> "high",
              action        |-> "Implement quality monitoring and alerting",
              reason        |-> <<"Predicted quality may breach threshold",
                                  predicted_quality>>,
              ml_confidence |-> 90,
              impact        |-> "Proactive quality management"] >>
     ELSE <<>>)

\* ml_quality_predictor.py 168-176.
DegradationRisk(predicted_quality) ==
    IF predicted_quality < 5000 THEN "critical"
    ELSE IF predicted_quality < 6000 THEN "high"
    ELSE IF predicted_quality < 7000 THEN "medium"
    ELSE "low"

\* ml_quality_predictor.py 185-187 and model_router.py 149-151: seq[-limit:].
LastOf(seq, limit) ==
    IF Len(seq) > limit THEN SubSeq(seq, Len(seq) - limit + 1, Len(seq))
    ELSE seq

\* ml_quality_predictor.py 99-215, hours_ahead at its default of 24
\* (quality_std and the timestamp of the history entry are left out).
predict_quality_degradation(self, recent_responses) ==
    IF ~self.enabled
    THEN [self |-> self,
          outcome |-> Return([error |-> "Quality predictor not enabled"])]
    ELSE IF Truth(self.baseline_embeddings).raised
    THEN [self |-> self, outcome |-> Truth(self.baseline_embeddings)]
    ELSE IF ~Truth(self.baseline_embeddings).value
    THEN [self |-> self,
          outcome |-> Return([error |-> "Baseline not established. Call establish_baseline() first."])]
    ELSE IF recent_responses.count < 3
    THEN [self |-> self,
          outcome |-> Return([error |-> "Need at least 3 recent responses"])]
    ELSE IF ~recent_responses.encodable
    THEN [self |-> self, outcome |-> Return([error |-> "TypeError"])]
    ELSE
      LET n     == recent_responses.count
          slope == recent_responses.slope
          intercept == recent_responses.first_similarity
          current_quality_x2 == 2 * intercept + slope * (n - 1)
          trend == IF n >= 5
                   THEN (IF slope < -100 THEN "degrading"
                         ELSE IF slope > 100 THEN "improving"
                         ELSE "stable")
                   ELSE "insufficient_data"
          predicted_quality_x2 ==
              IF n >= 5
              THEN 2 * Max(0, Min(10000, slope * (n + 1) + intercept))
              ELSE current_quality_x2
          degradation_risk == DegradationRisk(predicted_quality_x2 \div 2)
      IN  [self |-> [self EXCEPT !.quality_history =
                        LastOf(Append(@, [quality |-> current_quality_x2,
                                          trend   |-> trend]), 100)],
           outcome |-> Return(
              [current_quality       |-> RoundDiv(current_quality_x2, 20),
               trend                 |-> trend,
               trend_slope           |-> IF n >= 5 THEN slope ELSE None,
               predicted_quality_24h |-> RoundDiv(predicted_quality_x2, 20),
               degradation_risk      |-> degradation_risk,
               confidence            |-> RoundDiv(Min(9500, 7000 + n * 125), 100),
               recommendations       |->
                   QualityRecommendations(current_quality_x2,
                                          predicted_quality_x2 \div 2,
                                          trend, degradation_risk),
               ml_model              |-> "sentence_transformer + time_series"])]

\* x > y on floats, either of which may be nan.
Greater(x, y) == x # NaN /\ y # NaN /\ x > y

\* Drift bands that begin at their thresholds instead of above them.
DriftSeverityInclusive(drift) ==
    IF drift # NaN /\ drift >= 3000 THEN "high"
    ELSE IF drift # NaN /\ drift >= 2000 THEN "medium"
    ELSE "low"

\* ml_quality_predictor.py 287-293.
DriftSeverity(drift) ==
    IF Greater(drift, 3000) THEN "high"
    ELSE IF Greater(drift, 2000) THEN "medium"
    ELSE "low"

\* ml_quality_predictor.py 283-285: 1 - cosine similarity of the centroids.
CentroidDrift(new_responses) ==
    IF new_responses.centroid_cosine = NaN THEN NaN
    ELSE 10000 - new_responses.centroid_cosine

\* ml_quality_predictor.py 265-304.
detect_semantic_drift(self, new_responses) ==
    IF ~self.enabled THEN Return([error |-> "Baseline not established"])
    ELSE IF Truth(self.baseline_embeddings).raised
    THEN Truth(self.baseline_embeddings)
    ELSE IF ~Truth(self.baseline_embeddings).value
    THEN Return([error |-> "Baseline not established"])
    ELSE IF ~new_responses.encodable THEN Return([error |-> "TypeError"])
    ELSE LET drift == CentroidDrift(new_responses)
         IN  Return(
                [drift_score    |-> IF drift = NaN THEN NaN
                                    ELSE RoundDiv(drift, 10),
                 severity       |-> DriftSeverity(drift),
                 detected       |-> Greater(drift, 2000),
                 recommendation |-> IF Greater(drift, 2000)
                                    THEN "Review model version and prompt changes"
                                    ELSE "Quality stable"])

(***************************************************************************)
(*                         CostOptimizationEngine                          *)
(*                                                                         *)
(* A JSON object is a function from its keys; savings in 1e-4 dollar,      *)
(* percentages in tenths of a percent.  The Datadog keys of the            *)
(* environment do not bear on the history and are left out.                *)
(***************************************************************************)

EmptyDict == [k \in {} |-> None]

\* cost_optimization_engine.py 26-39 and 42-52: the fields of the dataclasses
\* that have no default, and all of them.
RecommendationRequired ==
    {"id", "title", "category", "description", "estimated_savings_per_request",
     "estimated_savings_percentage", "priority", "created_at"}
RecommendationFields ==
    RecommendationRequired \cup {"implemented_at", "status", "implementation_cost"}
ResultFields ==
    {"recommendation_id", "period_start", "period_end", "before_cost",
     "after_cost", "actual_savings", "request_count", "roi_percentage",
     "confidence_score"}

\* cost_optimization_engine.py 26-39: OptimizationRecommendation(**rec_data).
OptimizationRecommendation(rec_data) ==
    IF /\ RecommendationRequired \subseteq DOMAIN rec_data
       /\ DOMAIN rec_data \subseteq RecommendationFields
    THEN Return([f \in RecommendationFields |->
                    IF f \in DOMAIN rec_data THEN rec_data[f]
                    ELSE IF f = "implemented_at" THEN None
                    ELSE IF f = "status" THEN "pending"
                    ELSE 0])
    ELSE Raise("TypeError")

\* cost_optimization_engine.py 42-52: OptimizationResult(**result_data).
OptimizationResult(result_data) ==
    IF DOMAIN result_data = ResultFields THEN Return(result_data)
    ELSE Raise("TypeError")

\* A file of the store: absent, not readable, not JSON, or JSON text.
MissingFile    == [kind |-> "missing"]
UnreadableFile == [kind |-> "unreadable"]
MalformedJson  == [kind |-> "malformed"]
JsonFile(data) == [kind |-> "json", data |-> data]
\* JSON text whose top level is a list.
JsonList == [kind |-> "json_list"]

\* cost_optimization_engine.py 96-98: the loop over data['recommendations'],
\* up to the first record the dataclass rejects.
RECURSIVE LoadRecommendations(_, _, _)
LoadRecommendations(recommendations, records, i) ==
    IF i > Len(records) THEN [recommendations |-> recommendations, failed |-> FALSE]
    ELSE LET rec == OptimizationRecommendation(records[i])
         IN  IF rec.raised
             THEN [recommendations |-> recommendations, failed |-> TRUE]
             ELSE LoadRecommendations(
                      [id \in DOMAIN recommendations \cup {rec.value.id} |->
                          IF id = rec.value.id THEN rec.value
                          ELSE recommendations[id]],
                      records, i + 1)

\* cost_optimization_engine.py 100-102: the loop over data['results'].
RECURSIVE LoadResults(_, _, _)
LoadResults(results, records, i) ==
    IF i > Len(records) THEN [results |-> results, failed |-> FALSE]
    ELSE LET result == OptimizationResult(records[i])
         IN  IF result.raised THEN [results |-> results, failed |-> TRUE]
             ELSE LoadResults(Append(results, result.value), records, i + 1)

\* cost_optimization_engine.py 89-105: every failure is logged and ends the
\* load where it stands.
_load_history(self) ==
    LET file == self.storage.file
        recs == LoadRecommendations(self.recommendations,
                                    Get(file.data, "recommendations", <<>>), 1)
        res  == LoadResults(self.results, Get(file.data, "results", <<>>), 1)
    IN  IF file.kind # "json" THEN self
        ELSE IF recs.failed
        THEN [self EXCEPT !.recommendations = recs.recommendations]
        ELSE [self EXCEPT !.recommendations = recs.recommendations,
                          !.results = res.results]

\* cost_optimization_engine.py 67-87: CostOptimizationEngine(storage_path);
\* mkdir(parents=True, exist_ok=True) fails where the parent is a file.
CostOptimizationEngine__init__(disk) ==
    IF disk.parent = "file" THEN Raise("FileExistsError")
    ELSE Return(_load_history([storage         |-> disk,
                               recommendations |-> EmptyDict,
                               results         |-> <<>>]))

\* dataclasses.asdict(rec): the fields of the dataclass; an attribute set on
\* the instance beside them is not among them.
asdict(rec) == [f \in RecommendationFields |-> rec[f]]

\* The values of self.recommendations as a list (the order of the dict does
\* not bear on what a load restores).
RecommendationList(recommendations) ==
    LET ids   == DOMAIN recommendations
        order == CHOOSE s \in [1..Cardinality(ids) -> ids] :
                     \A i, j \in DOMAIN s : s[i] = s[j] => i = j
    IN  [i \in DOMAIN order |-> asdict(recommendations[order[i]])]

\* cost_optimization_engine.py 107-118: the store after _save_history; a
\* file that cannot be opened stays as it is, and the failure is logged.
_save_history(self, disk) ==
    IF disk.file.kind = "unreadable" THEN disk
    ELSE [disk EXCEPT !.file =
             JsonFile([recommendations |->
                           RecommendationList(self.recommendations),
                       results         |-> self.results,
                       last_updated    |-> "now"])]

\* cost_optimization_engine.py 135: the id made of the clock and of
\* len(self.recommendations); the clock is left out.
RecommendationId(n) == <<"opt-0", "opt-1", "opt-2", "opt-3", "opt-4">>[n + 1]

\* cost_optimization_engine.py 120-165: the engine and the store after the
\* call, and what the call returned.
create_recommendation(self, disk, title, category, implementation_cost) ==
    LET rec_id == RecommendationId(Cardinality(DOMAIN self.recommendations))
        recommendation ==
            [id                            |-> rec_id,
             title                         |-> title,
             category                      |-> category,
             description                   |-> "description",
             estimated_savings_per_request |-> 10,
             estimated_savings_percentage  |-> 100,
             priority                      |-> "medium",
             created_at                    |-> "now",
             implemented_at                |-> None,
             status                        |-> "pending",
             implementation_cost           |-> implementation_cost]
        created ==
            [self EXCEPT !.recommendations =
                [id \in DOMAIN @ \cup {rec_id} |->
                    IF id = rec_id THEN recommendation ELSE @[id]]]
    IN  [self    |-> created,
         disk    |-> _save_history(created, disk),
         outcome |-> Return(recommendation)]

\* cost_optimization_engine.py 187-194: the recommendation marked; the
\* baseline metrics become an attribute of the instance.
Implemented(recommendation, baseline_metrics) ==
    [f \in DOMAIN recommendation \cup {"baseline_metrics"} |->
        CASE f = "status" -> "implemented"
          [] f = "implemented_at" -> "now"
          [] f = "baseline_metrics" -> baseline_metrics
          [] OTHER -> recommendation[f]]

\* cost_optimization_engine.py 167-208.
implement_recommendation(self, disk, recommendation_id, baseline_metrics) ==
    IF recommendation_id \notin DOMAIN self.recommendations
    THEN [self |-> self, disk |-> disk, outcome |-> Raise("ValueError")]
    ELSE LET recommendation ==
                 Implemented(self.recommendations[recommendation_id],
                             baseline_metrics)
             marked ==
                 [self EXCEPT !.recommendations[recommendation_id] =
                                  recommendation]
         IN  [self    |-> marked,
              disk    |-> _save_history(marked, disk),
              outcome |-> Return(recommendation)]

\* float('inf').
Infinity == 999999999

\* cost_optimization_engine.py 247-255: before_cost where the caller gave
\* none: from the baseline metrics and the request count, or from the
\* telemetry platform, which without its keys answers 0.
BeforeCost(recommendation, given) ==
    LET baseline == IF "baseline_metrics" \in DOMAIN recommendation
                    THEN recommendation.baseline_metrics
                    ELSE EmptyDict
        baseline_cost_per_request == Get(baseline, "cost_per_request", 0)
        request_count == Get(given, "request_count", 0)
    IN  IF request_count # 0
        THEN baseline_cost_per_request * request_count
        ELSE 0

\* cost_optimization_engine.py 266-271, in tenths of a percent.
RoiPercentage(actual_savings, implementation_cost) ==
    IF implementation_cost > 0
    THEN RoundDiv((actual_savings - implementation_cost) * 1000,
                  implementation_cost)
    ELSE IF actual_savings > 0 THEN Infinity ELSE 0

\* The same without the check of the status.
record_optimization_result_unchecked(self, disk, recommendation_id, given) ==
    IF recommendation_id \notin DOMAIN self.recommendations
    THEN [self |-> self, disk |-> disk, outcome |-> Raise("ValueError")]
    ELSE LET recommendation == self.recommendations[recommendation_id]
             before  == IF "before_cost" \in DOMAIN given
                        THEN given.before_cost
                        ELSE BeforeCost(recommendation, given)
             after   == Get(given, "after_cost", 0)
             count   == Get(given, "request_count", 0)
             result  ==
                 [recommendation_id |-> recommendation_id,
                  period_start      |-> "now - period_days",
                  period_end        |-> "now",
                  before_cost       |-> before,
                  after_cost        |-> after,
                  actual_savings    |-> before - after,
                  request_count     |-> count,
                  roi_percentage    |->
                      RoiPercentage(before - after,
                                    recommendation.implementation_cost),
                  confidence_score  |-> 85]
             recorded == [self EXCEPT !.results = Append(@, result)]
         IN  [self    |-> recorded,
              disk    |-> _save_history(recorded, disk),
              outcome |-> Return(result)]

\* cost_optimization_engine.py 210-298; given holds the keyword arguments
\* that are not None (period_days decides the dates only; confidence_score is
\* the default).
record_optimization_result(self, disk, recommendation_id, given) ==
    IF recommendation_id \notin DOMAIN self.recommendations
    THEN [self |-> self, disk |-> disk, outcome |-> Raise("ValueError")]
    ELSE IF self.recommendations[recommendation_id].status # "implemented"
    THEN [self |-> self, disk |-> disk, outcome |-> Raise("ValueError")]
    ELSE LET recommendation == self.recommendations[recommendation_id]
             before  == IF "before_cost" \in DOMAIN given
                        THEN given.before_cost
                        ELSE BeforeCost(recommendation, given)
             after   == Get(given, "after_cost", 0)
             count   == Get(given, "request_count", 0)
             result  ==
                 [recommendation_id |-> recommendation_id,
                  period_start      |-> "now - period_days",
                  period_end        |-> "now",
                  before_cost       |-> before,
                  after_cost        |-> after,
                  actual_savings    |-> before - after,
                  request_count     |-> count,
                  roi_percentage    |->
                      RoiPercentage(before - after,
                                    recommendation.implementation_cost),
                  confidence_score  |-> 85]
             recorded == [self EXCEPT !.results = Append(@, result)]
         IN  [self    |-> recorded,
              disk    |-> _save_history(recorded, disk),
              outcome |-> Return(result)]

(***************************************************************************)
(*                            MLInsightsEngine                             *)
(*                                                                         *)
(* The engine is its three components in src/ (cost_predictor,             *)
(* quality_predictor, model_router) and the watchdog, whose module is not  *)
(* part of the sources: a call of it is the outcome the platform gave.     *)
(* ml_confidence of a merged recommendation in 1e-6, the unit of the       *)
(* router's; metrics in the units of the component they are handed to.     *)
(***************************************************************************)

\* WatchdogIntegration.get_ml_recommendations(): the platform's anomaly
\* insights as a list of dicts, a tagged error result in place of the list, or
\* an exception when the platform cannot be reached.
WatchdogInsights(insights) == Return([kind |-> "list", insights |-> insights])
WatchdogErrorResult == Return([kind |-> "error_result"])
WatchdogUnavailable == Raise("ConnectionError")

\* ml_insights.py 137-142: the prediction, None where the call raised.
PredictionOrNone(outcome) == IF outcome.raised THEN None ELSE outcome.value

\* ml_insights.py 119-142.
_get_ml_cost_prediction(cost_predictor, metrics) ==
    PredictionOrNone(
        predict_next_24h(cost_predictor,
                         [request_count    |-> Get(metrics, "request_count", 100),
                          avg_input_tokens |-> Get(metrics, "avg_input_tokens", 500),
                          cost_per_request |-> Get(metrics, "avg_cost_per_request", 10)],
                         Get(metrics, "daily_budget", 100000)))

\* An empty list of texts.
NoResponses ==
    [count |-> 0, encodable |-> TRUE, first_similarity |-> 0, slope |-> 0,
     centroid_cosine |-> NaN]

\* recent_responses[:10]
FirstTen(responses) == [responses EXCEPT !.count = Min(10, @)]

\* ml_insights.py 155-159: the predictor once a baseline missing so far has
\* been asked for.
WithBaseline(quality, recent_responses) ==
    IF Truth(quality.baseline_embeddings).value THEN quality
    ELSE establish_baseline(quality, FirstTen(recent_responses)).self

\* ml_insights.py 161-166: the predictor after the prediction, and the
\* prediction or None.
QualityPrediction(done) ==
    [self |-> done.self, prediction |-> PredictionOrNone(done.outcome)]

\* ml_insights.py 144-166: the predictor after the call and the prediction,
\* None where anything raised (a disabled predictor has no baseline_embeddings).
_get_ml_quality_prediction(quality, metrics) ==
    IF Get(metrics, "recent_responses", NoResponses).count < 3
    THEN [self |-> quality, prediction |-> None]
    ELSE IF ~quality.enabled THEN [self |-> quality, prediction |-> None]
    ELSE IF Truth(quality.baseline_embeddings).raised
    THEN [self |-> quality, prediction |-> None]
    ELSE QualityPrediction(
             predict_quality_degradation(
                 WithBaseline(quality, metrics.recent_responses),
                 metrics.recent_responses))

\* ml_insights.py 172-179.
RequestContext(metrics) ==
    [request_type            |-> Get(metrics, "request_type", "qa"),
     estimated_input_tokens  |-> Get(metrics, "avg_input_tokens", 500),
     estimated_output_tokens |-> Get(metrics, "avg_output_tokens", 1000),
     max_latency_ms          |-> Get(metrics, "max_latency_ms", 2000),
     min_quality             |-> Get(metrics, "min_quality", 70),
     cost_budget             |-> Get(metrics, "cost_budget", 10000),
     request_id              |-> 0]

\* ml_insights.py 183-203: what is made of the routing (the texts that format
\* the savings are left out).
RoutingRecommendation(done) ==
    [self     |-> done.self,
     appended |-> done.appended,
     recommendation |->
        IF done.outcome.raised THEN None
        ELSE IF done.outcome.value.cost_savings_percentage > 100
        THEN [priority      |-> "high",
              category      |-> "cost_optimization",
              title         |-> <<"ML Model Routing: Use",
                                  done.outcome.value.selected_model>>,
              ml_confidence |-> done.outcome.value.ml_confidence,
              ml_model      |-> "ml_model_router"]
        ELSE None]

\* ml_insights.py 168-203: the router after the call and the recommendation.
_get_routing_recommendation(model_router, metrics) ==
    RoutingRecommendation(
        route_request(model_router, RequestContext(metrics), TRUE))

\* ml_insights.py 229: priority_order.get(priority, 3).
priority_order(priority) ==
    CASE priority = "critical" -> 0
      [] priority = "high"     -> 1
      [] priority = "medium"   -> 2
      [] OTHER                 -> 3

\* A key that puts the least confident first.
sort_key_ascending(rec) ==
    << priority_order(Get(rec, "priority", "low")), Get(rec, "ml_confidence", 0) >>

\* ml_insights.py 231-235.
sort_key(rec) ==
    << priority_order(Get(rec, "priority", "low")), -Get(rec, "ml_confidence", 0) >>

\* Tuples as Python compares them: a <= b.
TupleLE(a, b) == a[1] < b[1] \/ (a[1] = b[1] /\ a[2] <= b[2])

\* sorted() taking one more element: behind every element whose key is not
\* greater (the sort is stable).
InsertSorted(sorted, rec) ==
    LET before == Cardinality({i \in 1..Len(sorted) :
                                  TupleLE(sort_key(sorted[i]), sort_key(rec))})
    IN  SubSeq(sorted, 1, before) \o <<rec>>
            \o SubSeq(sorted, before + 1, Len(sorted))

RECURSIVE SortedPrefix(_, _)
SortedPrefix(recommendations, n) ==
    IF n = 0 THEN <<>>
    ELSE InsertSorted(SortedPrefix(recommendations, n - 1), recommendations[n])

\* ml_insights.py 227-237: sorted(recommendations, key=sort_key).
_prioritize_recommendations(recommendations) ==
    SortedPrefix(recommendations, Len(recommendations))

\* The recommendations of a predictor, ml_confidence brought from hundredths
\* to 1e-6.
InMillionths(recommendations) ==
    [i \in 1..Len(recommendations) |->
        [recommendations[i] EXCEPT !.ml_confidence = @ * 10000]]

\* ml_insights.py 52-54 and 68-70: what a prediction adds to the list.
Contribution(prediction) ==
    IF prediction # None /\ "error" \notin DOMAIN prediction
    THEN InMillionths(Get(prediction, "recommendations", <<>>))
    ELSE <<>>

\* ml_insights.py 83-93: the recommendation made of an insight.
WatchdogRecommendation(insight) ==
    [priority      |-> Get(insight, "priority", "medium"),
     category      |-> "watchdog_ml",
     title         |-> Get(insight, "title", None),
     ml_confidence |-> Get(insight, "confidence", 900000),
     ml_model      |-> Get(insight, "ml_model", "Watchdog"),
     source        |-> "datadog_watchdog"]

\* ml_insights.py 55-64 and 71-79: the insights derived from the predictions.
PredictiveInsights(cost_prediction, quality_prediction) ==
    (IF cost_prediction # None /\ "error" \notin DOMAIN cost_prediction
     THEN << [type     |-> "cost_prediction",
              severity |-> IF cost_prediction.budget_risk \in {"critical", "high"}
                           THEN "high" ELSE "medium",
              ml_confidence |-> cost_prediction.confidence * 10000] >>
     ELSE <<>>)
    \o
    (IF /\ quality_prediction # None
        /\ "error" \notin DOMAIN quality_prediction
        /\ quality_prediction.degradation_risk \in {"critical", "high"}
     THEN << [type     |-> "quality_prediction",
              severity |-> quality_prediction.degradation_risk,
              ml_confidence |-> quality_prediction.confidence * 10000] >>
     ELSE <<>>)

\* The largest member of a non-empty set of numbers.
MaxOf(S) == CHOOSE x \in S : \A y \in S : y <= x

\* ml_insights.py 52-54, 68-70, 83-93, 96-98: what each contributor hands
\* over, in the order of the merge.
Merged(cost_prediction, quality_prediction, watchdog_insights, routing_recommendation) ==
    [cost     |-> Contribution(cost_prediction),
     quality  |-> Contribution(quality_prediction),
     watchdog |-> [i \in 1..Len(watchdog_insights) |->
                      WatchdogRecommendation(watchdog_insights[i])],
     routing  |-> IF routing_recommendation = None THEN <<>>
                  ELSE <<routing_recommendation>>]

\* ml_insights.py 100-117: the result.
InsightsResult(merged, cost_prediction, quality_prediction, watchdog_insights) ==
    [recommendations     |->
         _prioritize_recommendations(merged.cost \o merged.quality
                                     \o merged.watchdog \o merged.routing),
     predictive_insights |->
         PredictiveInsights(cost_prediction, quality_prediction),
     ml_models_used      |->
         [cost_prediction    |-> IF cost_prediction # None
                                 THEN Get(cost_prediction, "ml_model", None)
                                 ELSE None,
          quality_prediction |-> IF quality_prediction # None
                                 THEN Get(quality_prediction, "ml_model", None)
                                 ELSE None,
          watchdog           |-> IF watchdog_insights # <<>>
                                 THEN "datadog_watchdog" ELSE None,
          model_routing      |-> IF merged.routing # <<>> THEN "ml_router"
                                 ELSE None],
     ml_confidence_scores |->
         [cost     |-> IF cost_prediction # None
                       THEN Get(cost_prediction, "confidence", None)
                       ELSE None,
          quality  |-> IF quality_prediction # None
                       THEN Get(quality_prediction, "confidence", None)
                       ELSE None,
          watchdog |-> IF watchdog_insights # <<>>
                       THEN MaxOf({Get(watchdog_insights[i], "confidence", 900000) :
                                     i \in 1..Len(watchdog_insights)})
                       ELSE None]]

\* ml_insights.py 81-117: the call from the watchdog on, given the two
\* predictions and what the routing would give.  An exception of the watchdog
\* call (line 82) or of the loop over what it returned (lines 83-93) is not
\* caught, and the router is not reached.
Aggregate(cost_prediction, quality_call, watchdog, model_router, routing_call) ==
    IF watchdog.raised \/ watchdog.value.kind # "list"
    THEN [quality_predictor |-> quality_call.self,
          model_router      |-> model_router,
          appended          |-> <<>>,
          merged  |-> Merged(cost_prediction, quality_call.prediction, <<>>, None),
          outcome |-> IF watchdog.raised THEN watchdog
                      ELSE Raise("AttributeError")]
    ELSE [quality_predictor |-> quality_call.self,
          model_router      |-> routing_call.self,
          appended          |-> routing_call.appended,
          merged  |-> Merged(cost_prediction, quality_call.prediction,
                             watchdog.value.insights,
                             routing_call.recommendation),
          outcome |-> Return(
              InsightsResult(Merged(cost_prediction, quality_call.prediction,
                                    watchdog.value.insights,
                                    routing_call.recommendation),
                             cost_prediction, quality_call.prediction,
                             watchdog.value.insights))]

\* ml_insights.py 35-117: the components after the call, the outcome, and
\* what each contributor handed over before the sort.
generate_ml_recommendations(cost_predictor, quality, model_router, watchdog, current_metrics) ==
    Aggregate(_get_ml_cost_prediction(cost_predictor, current_metrics),
              _get_ml_quality_prediction(quality, current_metrics),
              watchdog, model_router,
              _get_routing_recommendation(model_router, current_metrics))

(***************************************************************************)
(*                       Inputs, actions, specifications                   *)
(***************************************************************************)

AttrIdle ==
    /\ engine = None
    /\ telemetry = None
    /\ attribution = None

RouterIds == {1, 2}

RouterIdle ==
    /\ routers = [r \in RouterIds |-> NewRouter]
    /\ route_calls = [r \in RouterIds |-> None]
    /\ decisions = [r \in RouterIds |-> <<>>]

MlIdle ==
    /\ predictor = None
    /\ cost_call = None
    /\ quality_predictor = None
    /\ drift_call = None
    /\ insights_call = None

OptIdle ==
    /\ storage = None
    /\ optimizer = None
    /\ opt_call = None

ClientIdle ==
    /\ client = None
    /\ generations = <<>>

\* ---- health ----

InitHealth == HealthIdle /\ ClientIdle /\ AttrIdle /\ RouterIdle /\ MlIdle /\ OptIdle

NextHealth == FirstHealthCall \/ NextHealthCall

SpecHealth == InitHealth /\ [][NextHealth]_vars

\* ---- attribution ----

\* The most entries the three breakdowns of one request hold together.
MaxEntries == 4

\* The tag values of the series of each dimension, in the order the entries
\* take them; "unknown" is what a series without the tag gets (line 253), in
\* any dimension.
DimensionNames(dimension) ==
    CASE dimension = "endpoint"     -> <<"/stress", "unknown">>
      [] dimension = "model"        -> <<"unknown", "gemini-1.5-pro">>
      [] dimension = "request_type" -> <<"stress", "unknown">>

\* change_pct of an entry: exactly 10%, exactly 15%, -30%, 300%.
Changes == {100, 150, -300, 3000}

\* contribution_pct of an entry; the entries of a breakdown share 100%.
Contributions == {20, 80, 100}

RECURSIVE SumContribution(_)
SumContribution(breakdown) ==
    IF breakdown = <<>> THEN 0
    ELSE Head(breakdown).contribution_pct + SumContribution(Tail(breakdown))

\* The breakdowns _fetch_breakdown_by_dimension can return for a dimension:
\* one entry per tag value, change_pct = (analysis - baseline) / baseline * 100,
\* sorted by |change_pct|, largest first (line 284); empty when the fetch fails.
Breakdowns(dimension) ==
    LET names == DimensionNames(dimension)
        Shape(n) == [1..n -> Changes \X Contributions]
        Build(f) == [i \in DOMAIN f |->
                        Entry(names[i], 1000, 1000 + f[i][1], f[i][1], f[i][2])]
        all == UNION {{Build(f) : f \in Shape(n)} : n \in 0..Len(names)}
    IN  {b \in all :
            /\ \A i \in 1..Len(b) : \A j \in (i + 1)..Len(b) :
                  Abs(b[i].change_pct) >= Abs(b[j].change_pct)
            /\ SumContribution(b) <= 100}

\* (anomaly_value, baseline_value) of the metric overall: nothing fetched,
\* +50%, -60%, +300%.
OverallValues == {<<0, 0>>, <<150, 100>>, <<40, 100>>, <<400, 100>>}

\* With datadog_enabled the platform answers any of these; without, nothing is
\* asked of it.
InitAttr ==
    /\ HealthIdle /\ ClientIdle /\ RouterIdle /\ MlIdle /\ OptIdle
    /\ attribution = None
    /\ \/ /\ engine = [datadog_enabled |-> TRUE]
          /\ \E overall \in OverallValues :
             \E eb \in Breakdowns("endpoint") :
             \E mb \in Breakdowns("model") :
             \E rb \in Breakdowns("request_type") :
                /\ Len(eb) + Len(mb) + Len(rb) <= MaxEntries
                /\ telemetry = [metric_name    |-> "llm.cost.usd",
                                anomaly_value  |-> overall[1],
                                baseline_value |-> overall[2],
                                endpoint       |-> eb,
                                model          |-> mb,
                                request_type   |-> rb]
       \/ /\ engine = [datadog_enabled |-> FALSE]
          /\ \E metric_name \in MetricNames :
                telemetry = [metric_name    |-> metric_name,
                             anomaly_value  |-> 0,
                             baseline_value |-> 0,
                             endpoint       |-> <<>>,
                             model          |-> <<>>,
                             request_type   |-> <<>>]

\* get_attribution_engine().attribute_anomaly(metric_name, timestamp).
AttributeAnomaly ==
    /\ attribution = None
    /\ attribution' = attribute_anomaly(engine, telemetry)
    /\ UNCHANGED <<clientVars, engine, telemetry, healthVars, routerVars, mlVars, optVars>>

NextAttr == AttributeAnomaly

SpecAttr == InitAttr /\ [][NextAttr]_vars

\* ---- contributing factors ----

\* Breakdowns wide enough for more than three factors: up to three endpoints
\* and two models, each entry changed by 12%, 16%, -30% or 300%.
FactorNames(dimension) ==
    CASE dimension = "endpoint"     -> <<"/stress", "/qa", "unknown">>
      [] dimension = "model"        -> <<"gemini-1.5-pro", "unknown">>
      [] dimension = "request_type" -> <<"stress">>

FactorChanges == {120, 160, -300, 3000}

\* contribution_pct by position in the breakdown.
FactorContributions == <<50, 30, 20>>

FactorBreakdowns(dimension) ==
    LET names == FactorNames(dimension)
        Build(f) == [i \in DOMAIN f |->
                        Entry(names[i], 1000, 1000 + f[i], f[i],
                              FactorContributions[i])]
        all == UNION {{Build(f) : f \in [1..n -> FactorChanges]} :
                         n \in 0..Len(names)}
    IN  {b \in all :
            \A i \in 1..Len(b) : \A j \in (i + 1)..Len(b) :
                Abs(b[i].change_pct) >= Abs(b[j].change_pct)}

InitFactors ==
    /\ HealthIdle /\ ClientIdle /\ RouterIdle /\ MlIdle /\ OptIdle
    /\ attribution = None
    /\ engine = [datadog_enabled |-> TRUE]
    /\ \E eb \in FactorBreakdowns("endpoint") :
       \E mb \in FactorBreakdowns("model") :
       \E rb \in FactorBreakdowns("request_type") :
          telemetry = [metric_name    |-> "llm.latency.ms",
                       anomaly_value  |-> 400,
                       baseline_value |-> 100,
                       endpoint       |-> eb,
                       model          |-> mb,
                       request_type   |-> rb]

NextFactors == AttributeAnomaly

SpecFactors == InitFactors /\ [][NextFactors]_vars

\* ---- router ----

Request(type, input_tokens, output_tokens, max_latency, min_quality, budget, id) ==
    [request_type            |-> type,
     estimated_input_tokens  |-> input_tokens,
     estimated_output_tokens |-> output_tokens,
     max_latency_ms          |-> max_latency,
     min_quality             |-> min_quality,
     cost_budget             |-> budget,
     request_id              |-> id]

RequestTypes == {"qa", "reason", "stress", "insights", "other"}
\* (estimated_input_tokens, estimated_output_tokens); (500, 1000) are the defaults.
TokenEstimates == {<<0, 0>>, <<100, 100>>, <<500, 1000>>, <<3000, 1000>>}
\* max_latency_ms; 2000 is the default.
MaxLatencies == {0, 100, 500, 2000}
\* min_quality; 0.7 is the default.
MinQualities == {70, 80, 95}
\* cost_budget: 0, the default 0.01, 10 dollars.
CostBudgets == {0, 10000, 10000000}

Requests ==
    {Request(type, tokens[1], tokens[2], max_latency, min_quality, budget, 0) :
        type \in RequestTypes, tokens \in TokenEstimates,
        max_latency \in MaxLatencies, min_quality \in MinQualities,
        budget \in CostBudgets}

\* A call of route_request that has not run yet.
Pending(request, use_ml) ==
    [request |-> request, use_ml |-> use_ml, result |-> None]

\* route_request(request, use_ml) on router r.
RouteRequest(r) ==
    /\ route_calls[r] # None
    /\ route_calls[r].result = None
    /\ LET call == route_calls[r]
           done == route_request(routers[r], call.request, call.use_ml)
       IN  /\ routers' = [routers EXCEPT ![r] = done.self]
           /\ route_calls' = [route_calls EXCEPT ![r].result = done.outcome]
           /\ decisions' = [decisions EXCEPT ![r] = @ \o done.appended]
    /\ UNCHANGED <<clientVars, healthVars, attrVars, mlVars, optVars>>

\* One router, one request of any kind.
InitRouter ==
    /\ HealthIdle /\ ClientIdle /\ AttrIdle /\ MlIdle /\ OptIdle
    /\ routers = [r \in RouterIds |-> NewRouter]
    /\ decisions = [r \in RouterIds |-> <<>>]
    /\ \E request \in Requests : \E use_ml \in BOOLEAN :
          route_calls = [r \in RouterIds |->
                            IF r = 1 THEN Pending(request, use_ml) ELSE None]

NextRouter == \E r \in RouterIds : RouteRequest(r)

SpecRouter == InitRouter /\ [][NextRouter]_vars

\* Two routers, each taking its own sequence of calls.
MaxPairCalls == 2

PairCalls ==
    { <<Request("qa", 500, 1000, 2000, 70, 10000, 0), TRUE>>,
      <<Request("qa", 500, 1000, 2000, 70, 10000, 0), FALSE>>,
      <<Request("stress", 100, 100, 500, 70, 10000000, 0), TRUE>>,
      <<Request("reason", 500, 1000, 2000, 95, 10000, 0), FALSE>>,
      <<Request("qa", 500, 1000, 0, 70, 10000, 0), TRUE>> }

SubmitRequest(r, request, use_ml) ==
    /\ IF route_calls[r] = None THEN TRUE ELSE route_calls[r].result # None
    /\ route_calls' = [route_calls EXCEPT ![r] = Pending(request, use_ml)]
    /\ UNCHANGED <<clientVars, routers, decisions, healthVars, attrVars, mlVars, optVars>>

SubmitPair ==
    \E r \in RouterIds : \E call \in PairCalls :
        /\ routers[r].routing_stats.total_routes < MaxPairCalls
        /\ SubmitRequest(r, call[1], call[2])

InitPair == HealthIdle /\ ClientIdle /\ AttrIdle /\ RouterIdle /\ MlIdle /\ OptIdle

NextPair == SubmitPair \/ \E r \in RouterIds : RouteRequest(r)

SpecPair == InitPair /\ [][NextPair]_vars

\* One router over a run long enough to fill routing_history: requests
\* numbered by request_id, every other one routed by rule to the premium model.
\* (Small token counts keep the accumulated cost_savings within the integers
\* checked; the code accumulates a float.)
MaxHistoryCalls == 1002

SubmitNumbered ==
    LET n == routers[1].routing_stats.total_routes + 1
    IN  /\ n <= MaxHistoryCalls
        /\ SubmitRequest(1, Request("qa", 10, 10, 2000,
                                     IF n % 2 = 1 THEN 70 ELSE 95, 10000, n),
                         n % 2 = 1)

InitHistory == HealthIdle /\ ClientIdle /\ AttrIdle /\ RouterIdle /\ MlIdle /\ OptIdle

NextHistory == SubmitNumbered \/ RouteRequest(1)

SpecHistory == InitHistory /\ [][NextHistory]_vars

\* ---- cost predictor ----

\* What a fitted model predicts for an hour: with a daily budget of $10, 24
\* hours of it are 24%, 72%, 93.6% and 120% of the budget.
HourlyCosts == {1000, 3000, 3900, 5000}

\* The models directory at construction: empty, holding a saved model and
\* scaler (the regressor of one saved model outputs a negative cost), or
\* holding a model beside a scaler that does not unpickle (and the reverse);
\* writable or not.
CostDisks ==
    {[writable |-> w, model |-> m, scaler |-> s] :
        w \in BOOLEAN,
        m \in {NoFile, CorruptFile, PickleFile(3900), PickleFile(-500)},
        s \in {NoFile, CorruptFile, PickleFile(0)}}

Histories == [samples : {0, 9, 10, 15}, cost_usd : HourlyCosts]

\* current_metrics: every key given, or only avg_input_tokens (the others take
\* the defaults of dict.get).
CostMetrics ==
    [request_count : {100, 2000}, avg_input_tokens : {500, 1500},
     cost_per_request : {10, 25}]
        \cup {[avg_input_tokens |-> 500]}

DailyBudgets == {0, 100000}

\* predictor.train(historical_data)
Train ==
    \E historical_data \in Histories :
        LET done == train(predictor, historical_data)
        IN  /\ predictor' = done.self
            /\ cost_call' = [op     |-> "train",
                             args   |-> <<historical_data>>,
                             before |-> predictor,
                             result |-> done.outcome]
            /\ UNCHANGED <<clientVars, quality_predictor, drift_call, insights_call,
                           healthVars, attrVars, routerVars, optVars>>

\* predictor.predict_next_24h(current_metrics, daily_budget)
Predict ==
    \E current_metrics \in CostMetrics : \E daily_budget \in DailyBudgets :
        /\ cost_call' = [op     |-> "predict_next_24h",
                         args   |-> <<current_metrics, daily_budget>>,
                         before |-> predictor,
                         result |-> predict_next_24h(predictor, current_metrics,
                                                     daily_budget)]
        /\ UNCHANGED <<clientVars, predictor, quality_predictor, drift_call, insights_call,
                       healthVars, attrVars, routerVars, optVars>>

InitCost ==
    /\ HealthIdle /\ ClientIdle /\ AttrIdle /\ RouterIdle /\ OptIdle
    /\ quality_predictor = None
    /\ drift_call = None
    /\ insights_call = None
    /\ cost_call = None
    /\ \E ml_available \in BOOLEAN : \E disk \in CostDisks :
          predictor = CostPredictor__init__(ml_available, disk)

NextCost == Train \/ Predict

SpecCost == InitCost /\ [][NextCost]_vars

\* ---- semantic drift ----

\* Cosine similarity of the new centroid to the baseline's: drifts of 0, 0.1996,
\* 0.2, 0.2004, 0.2006, 0.2996, 0.3, 0.3004, 0.301, 1 and 2, and the nan of a
\* centroid of norm zero.
CentroidCosines ==
    {10000, 8004, 8000, 7996, 7994, 7004, 7000, 6996, 6990, 0, -10000, NaN}

\* Texts handed to establish_baseline: four or more, strings or not.
ReferenceBatches ==
    [count : {4, 5, 6}, encodable : BOOLEAN, first_similarity : {8000},
     slope : {0}, centroid_cosine : {10000}]

\* Texts handed to detect_semantic_drift.
DriftBatches ==
    [count : {3}, encodable : BOOLEAN, first_similarity : {8000},
     slope : {0}, centroid_cosine : CentroidCosines]

\* models/quality_predictor.pkl at construction: absent, or the state of a
\* predictor without a baseline, with a baseline kept as a list of vectors, or
\* with the array establish_baseline left.
PickledBaselines == {None, EmptyList, VectorList(5), EmbeddingArray(5)}

\* quality_predictor.establish_baseline(reference_responses)
EstablishBaseline ==
    \E reference_responses \in ReferenceBatches :
        LET done == establish_baseline(quality_predictor, reference_responses)
        IN  /\ quality_predictor' = done.self
            /\ drift_call' = [op     |-> "establish_baseline",
                              args   |-> <<reference_responses>>,
                              before |-> quality_predictor,
                              result |-> done.outcome]
            /\ UNCHANGED <<clientVars, predictor, cost_call, insights_call,
                           healthVars, attrVars, routerVars, optVars>>

\* quality_predictor.detect_semantic_drift(new_responses)
DetectDrift ==
    \E new_responses \in DriftBatches :
        /\ drift_call' = [op     |-> "detect_semantic_drift",
                          args   |-> <<new_responses>>,
                          before |-> quality_predictor,
                          result |-> detect_semantic_drift(quality_predictor,
                                                           new_responses)]
        /\ UNCHANGED <<clientVars, predictor, cost_call, quality_predictor, insights_call,
                       healthVars, attrVars, routerVars, optVars>>

InitDrift ==
    /\ HealthIdle /\ ClientIdle /\ AttrIdle /\ RouterIdle /\ OptIdle
    /\ predictor = None
    /\ cost_call = None
    /\ insights_call = None
    /\ drift_call = None
    /\ \E transformers_available \in BOOLEAN : \E model_loads \in BOOLEAN :
       \E pickled \in PickledBaselines :
          quality_predictor = QualityPredictor__init__(transformers_available,
                                                       model_loads, pickled)

NextDrift == EstablishBaseline \/ DetectDrift

SpecDrift == InitDrift /\ [][NextDrift]_vars

\* ---- quality forecast ----

MaxQualityCalls == 2

\* Texts handed to predict_quality_degradation: two to six of them, whose mean
\* similarities to the baseline start at -0.1, 0.7 or 0.9 and fall by 0.15 a
\* text, stay, or rise by 0.02 a text; every one a cosine, within [-1, 1].
RecentBatches ==
    {b \in [count : 2..6, encodable : BOOLEAN,
            first_similarity : {-1000, 7000, 9000}, slope : {-1500, 0, 200},
            centroid_cosine : {9000}] :
        \A i \in 0..(b.count - 1) :
            /\ b.first_similarity + b.slope * i >= -10000
            /\ b.first_similarity + b.slope * i <= 10000}

\* quality_predictor.predict_quality_degradation(recent_responses)
PredictQuality ==
    /\ quality_predictor.enabled =>
          Len(quality_predictor.quality_history) < MaxQualityCalls
    /\ \E recent_responses \in RecentBatches :
        LET done == predict_quality_degradation(quality_predictor,
                                                recent_responses)
        IN  /\ quality_predictor' = done.self
            /\ drift_call' = [op     |-> "predict_quality_degradation",
                              args   |-> <<recent_responses>>,
                              before |-> quality_predictor,
                              result |-> done.outcome]
    /\ UNCHANGED <<clientVars, predictor, cost_call, insights_call,
                   healthVars, attrVars, routerVars, optVars>>

NextQuality == EstablishBaseline \/ PredictQuality

SpecQuality == InitDrift /\ [][NextQuality]_vars

\* ---- optimization history ----

MaxRecords == 2

\* A record of the 'recommendations' list: one as _save_history writes it, or
\* one written by hand with the fields that have defaults left out, or one
\* short of its title.
SavedRecommendation(id, status) ==
    [f \in RecommendationFields |->
        CASE f = "id" -> id
          [] f = "status" -> status
          [] f = "implemented_at" ->
                 IF status = "implemented" THEN "2024-01-02" ELSE None
          [] f \in {"estimated_savings_per_request", "implementation_cost"} -> 10
          [] f = "estimated_savings_percentage" -> 100
          [] OTHER -> f]

BriefRecommendation(id) ==
    [f \in RecommendationRequired |-> SavedRecommendation(id, "pending")[f]]

TruncatedRecommendation(id) ==
    [f \in RecommendationRequired \ {"title"} |->
        SavedRecommendation(id, "pending")[f]]

RecommendationRecords ==
    {SavedRecommendation("opt-1", "implemented"), BriefRecommendation("opt-2"),
     TruncatedRecommendation("opt-3")}

SavedResult(id) ==
    [f \in ResultFields |->
        CASE f = "recommendation_id" -> id
          [] f \in {"period_start", "period_end"} -> f
          [] f = "before_cost" -> 20000
          [] f = "after_cost" -> 15000
          [] f = "actual_savings" -> 5000
          [] f = "request_count" -> 1000
          [] f = "roi_percentage" -> 0
          [] OTHER -> 90]

TruncatedResult(id) == [f \in {"recommendation_id"} |-> id]

ResultRecords == {SavedResult("opt-1"), TruncatedResult("opt-1")}

SeqsUpTo(S, n) == UNION {[1..k -> S] : k \in 0..n}

\* What data/optimization_history.json may hold when the engine is built.
HistoryFiles ==
    {MissingFile, UnreadableFile, MalformedJson, JsonList, JsonFile(EmptyDict)}
    \cup {JsonFile([recommendations |-> recs, results |-> res]) :
            recs \in SeqsUpTo(RecommendationRecords, MaxRecords),
            res \in SeqsUpTo(ResultRecords, MaxRecords)}

Disks ==
    {[parent |-> p, file |-> f] : p \in {"directory", "absent"}, f \in HistoryFiles}
    \cup {[parent |-> "file", file |-> MissingFile]}

\* CostOptimizationEngine(storage_path)
Construct ==
    /\ optimizer = None
    /\ optimizer' = CostOptimizationEngine__init__(storage)
    /\ UNCHANGED <<storage, opt_call, clientVars, mlVars, healthVars,
                   attrVars, routerVars>>

InitOpt ==
    /\ HealthIdle /\ ClientIdle /\ AttrIdle /\ RouterIdle /\ MlIdle
    /\ storage \in Disks
    /\ optimizer = None
    /\ opt_call = None

NextOpt == Construct

SpecOpt == InitOpt /\ [][NextOpt]_vars

\* ---- recommendation lifecycle ----

\* baseline_metrics of implement_recommendation: $0.002 a request.
BaselineMetrics == {[cost_per_request |-> 20, request_count |-> 1000]}

\* The recommendations created in one run.
MaxRecommendations == 2

\* The ids the calls name: those the engine gives, and one it never gave.
NamedIds == {RecommendationId(n) : n \in 0..MaxRecommendations}

\* The keyword arguments of record_optimization_result: the request count
\* and the cost after, with the cost before and without it.
ResultArguments ==
    { [after_cost |-> 15000, request_count |-> 1000],
      [before_cost |-> 25000, after_cost |-> 15000, request_count |-> 1000] }

\* The results recorded in one run.
MaxResults == 1

\* A call on the engine: the engine and the store after it, and the call with
\* the engine and the store before it.
EngineCall(op, args, done) ==
    /\ optimizer' = Return(done.self)
    /\ storage' = done.disk
    /\ opt_call' = [op |-> op, args |-> args, before |-> optimizer.value,
                    outcome |-> done.outcome]
    /\ UNCHANGED <<clientVars, healthVars, attrVars, routerVars, mlVars>>

EngineBuilt == optimizer # None /\ ~optimizer.raised

\* The first recommendation costs nothing to implement, the later ones $50.
CreateRecommendation ==
    LET implementation_cost ==
            IF DOMAIN optimizer.value.recommendations = {} THEN 0 ELSE 500000
    IN  /\ EngineBuilt
        /\ Cardinality(DOMAIN optimizer.value.recommendations)
              < MaxRecommendations
        /\ EngineCall("create_recommendation", <<implementation_cost>>,
                      create_recommendation(optimizer.value, storage, "title",
                                            "caching", implementation_cost))

ImplementRecommendation ==
    /\ EngineBuilt
    /\ \E id \in NamedIds : \E baseline_metrics \in BaselineMetrics :
          EngineCall("implement_recommendation", <<id, baseline_metrics>>,
                     implement_recommendation(optimizer.value, storage, id,
                                              baseline_metrics))

\* No more than MaxResults calls record a result; a call that raises is
\* not counted.
RecordResult(id, given, done) ==
    /\ Len(optimizer.value.results) < MaxResults \/ done.outcome.raised
    /\ EngineCall("record_optimization_result", <<id, given>>, done)

RecordOptimizationResult ==
    /\ EngineBuilt
    /\ \E id \in NamedIds : \E given \in ResultArguments :
          RecordResult(id, given,
                       record_optimization_result(optimizer.value, storage, id,
                                                  given))

\* The process ends and a new one constructs the engine over the same store.
Restart ==
    /\ EngineBuilt
    /\ optimizer' = CostOptimizationEngine__init__(storage)
    /\ opt_call' = [op |-> "restart", args |-> <<>>, before |-> optimizer.value,
                    outcome |-> Return("engine")]
    /\ UNCHANGED <<storage, clientVars, healthVars, attrVars, routerVars,
                   mlVars>>

InitLifecycle ==
    /\ HealthIdle /\ ClientIdle /\ AttrIdle /\ RouterIdle /\ MlIdle
    /\ storage = [parent |-> "absent", file |-> MissingFile]
    /\ optimizer = None
    /\ opt_call = None

NextLifecycle ==
    \/ Construct
    \/ CreateRecommendation
    \/ ImplementRecommendation
    \/ RecordOptimizationResult
    \/ Restart

SpecLifecycle == InitLifecycle /\ [][NextLifecycle]_vars

\* ---- insights ----

MaxInsightCalls == 2

\* Texts of falling similarity to the baseline (0.70 down by 0.02 a text), and
\* the same number of values that are not texts.
DegradingResponses ==
    [count |-> 6, encodable |-> TRUE, first_similarity |-> 7000, slope |-> -200,
     centroid_cosine |-> 9000]
UnencodableResponses == [DegradingResponses EXCEPT !.encodable = FALSE]

\* current_metrics: no key at all; a busy hour of long prompts on half the
\* default budget; the same with recent responses and a 'stress' request; a
\* request_count that is not a number; values not texts as responses; a
\* cost_budget of 0.
InsightMetrics ==
    { EmptyDict,
      [request_count |-> 2000, avg_input_tokens |-> 1500, daily_budget |-> 50000],
      [request_count |-> 2000, avg_input_tokens |-> 1500,
       recent_responses |-> DegradingResponses, request_type |-> "stress"],
      [request_count |-> NotANumber, recent_responses |-> DegradingResponses],
      [recent_responses |-> UnencodableResponses, request_type |-> "reason",
       min_quality |-> 95],
      [cost_budget |-> 0, avg_input_tokens |-> 100] }

\* What the watchdog call gives: no insight, one, two or three of mixed
\* priority and confidence (a priority of its own naming among them), an error
\* result, or an exception.
WatchdogOutcomes ==
    { WatchdogInsights(<<>>),
      WatchdogInsights(<< [title |-> "latency anomaly", priority |-> "critical",
                           confidence |-> 950000] >>),
      WatchdogInsights(<< [title |-> "cost anomaly"],
                          [title |-> "error anomaly", priority |-> "high",
                           confidence |-> 890000] >>),
      WatchdogInsights(<< [title |-> "token anomaly", priority |-> "low",
                           confidence |-> 990000],
                          [title |-> "quality anomaly", priority |-> "urgent",
                           confidence |-> 999000],
                          [title |-> "error anomaly", priority |-> "high",
                           confidence |-> 910000] >>),
      WatchdogErrorResult,
      WatchdogUnavailable }

InsightDisks ==
    {disk \in CostDisks :
        /\ disk.writable
        /\ \/ disk.model = NoFile /\ disk.scaler = NoFile
           \/ disk.model = PickleFile(3900) /\ disk.scaler = PickleFile(0)}

InsightCalls == IF insights_call = None THEN 0 ELSE insights_call.calls

\* The engine and the record of the call once generate_ml_recommendations
\* has run.
Called(current_metrics, watchdog, done) ==
    /\ quality_predictor' = done.quality_predictor
    /\ routers' = [routers EXCEPT ![1] = done.model_router]
    /\ decisions' = [decisions EXCEPT ![1] = @ \o done.appended]
    /\ insights_call' = [calls    |-> InsightCalls + 1,
                         args     |-> <<current_metrics>>,
                         watchdog |-> watchdog,
                         merged   |-> done.merged,
                         result   |-> done.outcome]

\* engine.generate_ml_recommendations(current_metrics); the engine's router is
\* router 1.
GenerateRecommendations ==
    /\ InsightCalls < MaxInsightCalls
    /\ \E current_metrics \in InsightMetrics : \E watchdog \in WatchdogOutcomes :
          Called(current_metrics, watchdog,
                 generate_ml_recommendations(predictor, quality_predictor,
                                             routers[1], watchdog,
                                             current_metrics))
    /\ UNCHANGED <<clientVars, predictor, cost_call, drift_call, route_calls,
                   healthVars, attrVars, optVars>>

\* MLInsightsEngine(): the components as their constructors leave them.
InitInsights ==
    /\ HealthIdle /\ ClientIdle /\ AttrIdle /\ RouterIdle /\ OptIdle
    /\ cost_call = None
    /\ drift_call = None
    /\ insights_call = None
    /\ \E ml_available \in BOOLEAN : \E disk \in InsightDisks :
          predictor = CostPredictor__init__(ml_available, disk)
    /\ \E transformers_available \in BOOLEAN :
       \E pickled \in {None, VectorList(5)} :
          quality_predictor = QualityPredictor__init__(transformers_available,
                                                       TRUE, pickled)

NextInsights == GenerateRecommendations

SpecInsights == InitInsights /\ [][NextInsights]_vars

\* ---- LLM client ----

\* config.py 13: settings.gemini_model.
gemini_model == "gemini-2.5-flash"

\* genai.GenerativeModel(model_name): the handle of one served model.
GenerativeModel(model_name) == [model_name |-> model_name]

\* llm_client.py 42-54 and 292-305: the shared LLMClient, with an API key set
\* and no model_name given.
LLMClient__init__ ==
    [model_name |-> gemini_model, model |-> GenerativeModel(gemini_model)]

\* llm_client.py 72-74.
EstimatedInputTokens(prompt_length) == Max(1, prompt_length \div 4)

\* llm_client.py 76-84: the request generate hands to the router.
RoutedRequest(prompt_length, request_type, id) ==
    Request(request_type, EstimatedInputTokens(prompt_length), 500, 2000, 70,
            10000, id)

\* llm_client.py 67-94: generate up to its first await, given what
\* route_request did: the locals selected_model and routing_decision, and the
\* client after the switch.  An exception of the router is logged and the
\* client's model kept.
SelectModel(self, auto_route, done) ==
    IF ~auto_route \/ done.outcome.raised
    THEN [self |-> self, selected_model |-> self.model_name,
          routing_decision |-> None]
    ELSE LET selected_model == done.outcome.value.selected_model
         IN  [self |->
                 IF selected_model # self.model_name
                 THEN [model_name |-> selected_model,
                       model      |-> GenerativeModel(selected_model)]
                 ELSE self,
              selected_model   |-> selected_model,
              routing_decision |-> done.outcome.value]

\* llm_client.py 224-245 and 272-283: the result of generate, on a response
\* and on an exception of the API call (text, tokens, latency and cost, which
\* the API decides, are left out).
GenerateResult(call, failed) ==
    IF failed
    THEN [model |-> call.selected_model, model_version |-> gemini_model,
          error |-> "exception"]
    ELSE IF call.routing_decision # None
    THEN [model |-> call.selected_model, model_version |-> gemini_model,
          routing_decision |->
              [selected_by_ml |-> TRUE,
               ml_confidence  |-> call.routing_decision.ml_confidence,
               cost_savings   |-> call.routing_decision.cost_savings,
               reasoning      |-> call.routing_decision.reasoning]]
    ELSE [model |-> call.selected_model, model_version |-> gemini_model]

MaxGenerateCalls == 2

\* Prompts of 0, 100 and 2000 characters.
PromptLengths == {0, 100, 2000}

\* get_llm_client(): the client is made on first use.
GetLLMClient ==
    /\ client = None
    /\ client' = LLMClient__init__
    /\ UNCHANGED <<generations, healthVars, attrVars, routerVars, mlVars,
                   optVars>>

\* generate(prompt, request_type, ...) from its start to its first await: the
\* routing on the module's router (router 1), the switch of the client's
\* model, and then either one of the simulated sleeps or the hand-over of the
\* API call to the executor.
StartGenerate(done, prompt_length, request_type, simulate, auto_route) ==
    LET routed == SelectModel(client, auto_route, done)
    IN  /\ client' = routed.self
        /\ generations' =
              Append(generations,
                     [pc               |-> IF simulate THEN "sleeping"
                                           ELSE "executor",
                      request_type     |-> request_type,
                      prompt_length    |-> prompt_length,
                      auto_route       |-> auto_route,
                      selected_model   |-> routed.selected_model,
                      routing_decision |-> routed.routing_decision,
                      served_by        |-> None,
                      result           |-> None])
        /\ IF auto_route
           THEN /\ routers' = [routers EXCEPT ![1] = done.self]
                /\ decisions' = [decisions EXCEPT ![1] = @ \o done.appended]
           ELSE UNCHANGED <<routers, decisions>>

Generate ==
    /\ client # None
    /\ Len(generations) < MaxGenerateCalls
    /\ \E prompt_length \in PromptLengths :
       \E request_type \in {"qa", "stress", "other"} :
       \E simulate \in BOOLEAN : \E auto_route \in BOOLEAN :
          StartGenerate(route_request(routers[1],
                                      RoutedRequest(prompt_length, request_type,
                                                    Len(generations) + 1),
                                      TRUE),
                        prompt_length, request_type, simulate, auto_route)
    /\ UNCHANGED <<route_calls, healthVars, attrVars, mlVars, optVars>>

\* llm_client.py 125-136: asyncio.sleep returns to the call, which goes on to
\* hand the API call to the executor and awaits it.
Wake(id) ==
    /\ generations[id].pc = "sleeping"
    /\ generations' = [generations EXCEPT ![id].pc = "executor"]
    /\ UNCHANGED <<client, healthVars, attrVars, routerVars, mlVars, optVars>>

\* llm_client.py 146-157 and 224-283: the executor runs the lambda, which
\* reads self.model then, and the call returns its result.
Execute(id) ==
    /\ generations[id].pc = "executor"
    /\ \E failed \in BOOLEAN :
          generations' =
              [generations EXCEPT
                  ![id].pc        = "done",
                  ![id].served_by = client.model.model_name,
                  ![id].result    = GenerateResult(generations[id], failed)]
    /\ UNCHANGED <<client, healthVars, attrVars, routerVars, mlVars, optVars>>

InitClient ==
    HealthIdle /\ ClientIdle /\ AttrIdle /\ RouterIdle /\ MlIdle /\ OptIdle

NextClient ==
    \/ GetLLMClient
    \/ Generate
    \/ \E id \in 1..Len(generations) : Wake(id)
    \/ \E id \in 1..Len(generations) : Execute(id)

SpecClient == InitClient /\ [][NextClient]_vars

(***************************************************************************)
(*                                 Claims                                  *)
(***************************************************************************)

\* The last two calls of calculate_health_score differ in field f only.
DifferOnlyIn(f) ==
    /\ prev_snapshot # None
    /\ snapshot # None
    /\ prev_snapshot[f] # snapshot[f]
    /\ [prev_snapshot EXCEPT ![f] = snapshot[f]] = snapshot

\* C1: performance_score is monotone in latency: of two snapshots that differ
\* only in latency_ms, the one with the lower latency has a performance_score
\* at least as high as the other's.  (Violated: 1499 ms scores 0.12 and
\* 1500 ms scores 60.)
C1_LatencyMonotone ==
    DifferOnlyIn("latency_ms") =>
        /\ (prev_snapshot.latency_ms < snapshot.latency_ms
                => prev_scores.performance_score >= scores.performance_score)
        /\ (prev_snapshot.latency_ms > snapshot.latency_ms
                => prev_scores.performance_score <= scores.performance_score)

\* C2: for every valid snapshot, health_score and the five sub-scores returned
\* lie in [0, 100] and efficiency_bonus in [0, 10].
C2_ScoresBounded ==
    scores # None =>
        /\ \A k \in {"health_score", "performance_score", "reliability_score",
                     "cost_score", "quality_score", "security_score"} :
              0 <= scores[k] /\ scores[k] <= 10000
        /\ 0 <= scores.efficiency_bonus /\ scores.efficiency_bonus <= 1000

\* C2 witness: a returned health_score of exactly 100 where the weighted sum
\* with the efficiency bonus went past 100 and was capped.
C2_Witness ==
    /\ scores # None
    /\ weighted_sum(snapshot) > 1800000
    /\ scores.health_score = 10000
    /\ scores.efficiency_bonus = 1000

\* The entries of the three breakdowns attribute_anomaly worked on, in the
\* order endpoint, model, request type, each with its dimension.
ScannedEntries ==
    LET d == MetricData(engine, telemetry)
        Tag(dimension, b) ==
            [i \in 1..Len(b) |-> [dimension |-> dimension, entry |-> b[i]]]
    IN  Tag("endpoint", d.endpoint) \o Tag("model", d.model)
            \o Tag("request_type", d.request_type)

\* Entry i of ScannedEntries changed by more than 10%.
IsCandidate(i) == Abs(ScannedEntries[i].entry.change_pct) > 100

NoCandidate == \A i \in 1..Len(ScannedEntries) : ~IsCandidate(i)

\* C3: when some entry of the three breakdowns has |change_pct| > 10, the
\* primary cause is the entry of largest |change_pct| among them, and of
\* several such entries the first in the order endpoint, model, request type.
C3_PrimaryIsFirstMaximum ==
    (attribution # None /\ ~NoCandidate) =>
        \E i \in 1..Len(ScannedEntries) :
            /\ IsCandidate(i)
            /\ \A j \in 1..Len(ScannedEntries) :
                  Abs(ScannedEntries[j].entry.change_pct)
                      <= Abs(ScannedEntries[i].entry.change_pct)
            /\ \A j \in 1..(i - 1) :
                  Abs(ScannedEntries[j].entry.change_pct)
                      < Abs(ScannedEntries[i].entry.change_pct)
            /\ attribution.primary_cause.dimension = ScannedEntries[i].dimension
            /\ attribution.primary_cause.name = ScannedEntries[i].entry.name
            /\ attribution.primary_cause.change_pct
                  = ScannedEntries[i].entry.change_pct

\* C3 witness: an endpoint entry and a model entry tie on the largest
\* |change_pct|, above 10%, and the endpoint entry is the primary cause.
C3_Witness ==
    /\ attribution # None
    /\ engine.datadog_enabled
    /\ telemetry.endpoint # <<>>
    /\ telemetry.model # <<>>
    /\ Abs(telemetry.endpoint[1].change_pct) > 100
    /\ Abs(telemetry.endpoint[1].change_pct) = Abs(telemetry.model[1].change_pct)
    /\ attribution.primary_cause.dimension = "endpoint"
    /\ attribution.primary_cause.name = telemetry.endpoint[1].name

\* C4: total_confidence of every attribution lies in [0, 0.95].
C4_TotalConfidenceBounded ==
    attribution # None =>
        /\ 0 <= attribution.total_confidence
        /\ attribution.total_confidence <= 57000000

\* C4 witness: no contributing factor, a primary confidence of 0.95 already,
\* and an overall change above 50%, so that the 0.05 boost meets its cap.
C4_Witness ==
    /\ attribution # None
    /\ attribution.contributing_factors = <<>>
    /\ attribution.primary_cause.dimension # "unknown"
    /\ Abs(attribution.change_percentage) > 500
    /\ attribution.total_confidence = 57000000

\* The call of route_request on router r has run.
Routed(r) ==
    /\ route_calls[r] # None
    /\ route_calls[r].result # None

Flash == Models["gemini-1.5-flash"]

\* C5 as claimed: with use_ml, whenever gemini-1.5-flash satisfies the
\* request's min_quality and max_latency_ms, a decision selects it.
\* (Violated: request_type "qa" with min_quality 0.7 selects gemini-1.5-pro.)
C5_CheapMeetingRequestSelected ==
    \A r \in RouterIds :
        (/\ Routed(r)
         /\ route_calls[r].use_ml
         /\ ~route_calls[r].result.raised
         /\ Flash.quality_score >= route_calls[r].request.min_quality
         /\ Flash.avg_latency_ms <= route_calls[r].request.max_latency_ms)
        => route_calls[r].result.value.selected_model = "gemini-1.5-flash"

\* gemini-1.5-flash reaches the threshold the router scores quality against,
\* max(required_quality, min_quality), and the request's max_latency_ms.
FlashMeetsThreshold(request) ==
    /\ Flash.quality_score >=
          Max(_predict_required_quality(request.request_type,
                                        request.estimated_input_tokens),
              request.min_quality)
    /\ Flash.avg_latency_ms <= request.max_latency_ms

\* C5 amended: with use_ml, whenever gemini-1.5-flash reaches the quality
\* threshold max(required_quality, min_quality) and max_latency_ms, every
\* decision returned selects it.
C5_CheapMeetingThresholdSelected ==
    \A r \in RouterIds :
        (/\ Routed(r)
         /\ route_calls[r].use_ml
         /\ ~route_calls[r].result.raised
         /\ FlashMeetsThreshold(route_calls[r].request))
        => route_calls[r].result.value.selected_model = "gemini-1.5-flash"

\* C5 witness: a request both models satisfy in quality and latency, at no
\* cost for either (no tokens), so that the scores tie, decided for flash.
C5_Witness ==
    /\ Routed(1)
    /\ route_calls[1].use_ml
    /\ ~route_calls[1].result.raised
    /\ FlashMeetsThreshold(route_calls[1].request)
    /\ route_calls[1].request.max_latency_ms >= 800
    /\ route_calls[1].request.estimated_input_tokens = 0
    /\ route_calls[1].request.estimated_output_tokens = 0
    /\ route_calls[1].result.value.selected_model = "gemini-1.5-flash"

\* No model of the registry reaches max(required_quality, min_quality).
NoModelReachesThreshold(request) ==
    \A name \in DOMAIN Models :
        Models[name].quality_score <
            Max(_predict_required_quality(request.request_type,
                                          request.estimated_input_tokens),
                request.min_quality)

\* The score _calculate_ml_model_score gives model name for the request.
ScoreOf(name, request) ==
    _calculate_ml_model_score(
        Models[name],
        _predict_required_quality(request.request_type,
                                  request.estimated_input_tokens),
        request.min_quality, request.max_latency_ms, request.cost_budget,
        request.estimated_input_tokens, request.estimated_output_tokens)

\* C6: with use_ml, when no model reaches the quality threshold, route_request
\* still returns a decision, for a registry model of the largest score.
\* (Violated: min_quality 0.95 with max_latency_ms 0 raises, see C7.)
C6_BestAvailableReturned ==
    \A r \in RouterIds :
        (/\ Routed(r)
         /\ route_calls[r].use_ml
         /\ NoModelReachesThreshold(route_calls[r].request))
        => /\ ~route_calls[r].result.raised
           /\ LET selected == route_calls[r].result.value.selected_model
                  request  == route_calls[r].request
              IN  /\ selected \in DOMAIN Models
                  /\ \A name \in DOMAIN Models :
                        ScoreOf(name, request).value
                            <= ScoreOf(selected, request).value

\* C7: route_request never lets an exception out.
\* (Violated: max_latency_ms 0, or cost_budget 0 with a positive cost, and
\* use_ml raise ZeroDivisionError.)
C7_NeverRaises ==
    \A r \in RouterIds : Routed(r) => ~route_calls[r].result.raised

\* C8: two routers with whatever histories give the same outcome for the same
\* request and use_ml flag.
C8_DecisionIgnoresHistory ==
    (/\ Routed(1)
     /\ Routed(2)
     /\ route_calls[1].request = route_calls[2].request
     /\ route_calls[1].use_ml = route_calls[2].use_ml)
    => route_calls[1].result = route_calls[2].result

\* C8 witness: the same call answered alike, with a decision, by a router
\* whose last recorded decision chose the premium model and by a router with
\* no history before the call.
C8_Witness ==
    /\ Routed(1)
    /\ Routed(2)
    /\ route_calls[1].request = route_calls[2].request
    /\ route_calls[1].use_ml = route_calls[2].use_ml
    /\ ~route_calls[1].result.raised
    /\ route_calls[1].result = route_calls[2].result
    /\ Len(routers[1].routing_history) = 2
    /\ routers[1].routing_history[1].selected_model = "gemini-1.5-pro"
    /\ routers[1].routing_history[2].selected_model = "gemini-1.5-flash"
    /\ Len(routers[2].routing_history) = 1
    /\ routers[1].routing_stats # routers[2].routing_stats

\* C9: routing_history holds at most 1000 records: the last min(n, 1000) of
\* the n decisions made, in the order they were made.
C9_HistoryIsLastThousand ==
    \A r \in RouterIds :
        LET history == routers[r].routing_history
            n       == Len(decisions[r])
        IN  /\ Len(history) <= 1000
            /\ Len(history) = Min(n, 1000)
            /\ history = SubSeq(decisions[r], n - Len(history) + 1, n)

\* C9 witness: 1002 decisions made, the first two dropped.
C9_Witness ==
    /\ Len(decisions[1]) = 1002
    /\ Len(routers[1].routing_history) = 1000
    /\ routers[1].routing_history[1].request_id = 3
    /\ routers[1].routing_history[1000].request_id = 1002

\* C10 as claimed: when no entry has |change_pct| > 10, the primary cause is
\* 'unknown', there is no contributing factor and total_confidence is 0.3.
\* (Violated: with an overall change above 50% total_confidence is 0.35.)
C10_UnknownConfidencePointThree ==
    (attribution # None /\ NoCandidate) =>
        /\ attribution.primary_cause.dimension = "unknown"
        /\ attribution.contributing_factors = <<>>
        /\ attribution.total_confidence = 18000000

\* C10 amended: when no entry has |change_pct| > 10 the primary cause is
\* 'unknown', there is no contributing factor, and total_confidence is 0.3
\* when the overall |change_pct| is at most 50 and 0.35 when it is above 50.
C10_UnknownConfidence ==
    (attribution # None /\ NoCandidate) =>
        /\ attribution.primary_cause.dimension = "unknown"
        /\ attribution.primary_cause.name = "unknown"
        /\ attribution.contributing_factors = <<>>
        /\ attribution.total_confidence =
              IF Abs(attribution.change_percentage) > 500
              THEN 21000000 ELSE 18000000

\* C10 witness: every fetch of a breakdown failed (all three empty) while the
\* metric overall fell by 60%: unknown cause, total_confidence 0.35.
C10_Witness ==
    /\ attribution # None
    /\ engine.datadog_enabled
    /\ telemetry.endpoint = <<>>
    /\ telemetry.model = <<>>
    /\ telemetry.request_type = <<>>
    /\ attribution.change_percentage = -600
    /\ attribution.primary_cause.dimension = "unknown"
    /\ attribution.total_confidence = 21000000

\* C11 as claimed: an engine constructed without the telemetry platform works
\* on empty breakdowns and returns the unknown-cause result.
\* (Violated: it works on the breakdowns of _simulate_breakdown and names the
\* endpoint "/stress".)
C11_AbsentPlatformIsNoData ==
    (attribution # None /\ ~engine.datadog_enabled) =>
        /\ MetricData(engine, telemetry).endpoint = <<>>
        /\ MetricData(engine, telemetry).model = <<>>
        /\ MetricData(engine, telemetry).request_type = <<>>
        /\ attribution.primary_cause.dimension = "unknown"
        /\ attribution.primary_cause.name = "unknown"

\* C17: of two successive snapshots that differ only in error_rate, the one of
\* larger error_rate has the reliability_score that is not larger.
C17_ErrorRateAntitone ==
    DifferOnlyIn("error_rate") =>
        /\ (prev_snapshot.error_rate < snapshot.error_rate
                => prev_scores.reliability_score >= scores.reliability_score)
        /\ (prev_snapshot.error_rate > snapshot.error_rate
                => prev_scores.reliability_score <= scores.reliability_score)

\* C17 witness: error_rate raised from 5% to 100% under a retry_rate of 10%:
\* the score falls from 40 to the floor, 0.
C17_Witness ==
    /\ DifferOnlyIn("error_rate")
    /\ prev_snapshot.error_rate = 50
    /\ snapshot.error_rate = 1000
    /\ snapshot.retry_rate = 100
    /\ prev_scores.reliability_score = 4000
    /\ scores.reliability_score = 0

\* The entries a contributing factor may come from: those of any breakdown
\* whose name is not the primary cause's and whose |change_pct| is above 15.
IsFactorCandidate(i) ==
    /\ ScannedEntries[i].entry.name # attribution.primary_cause.name
    /\ Abs(ScannedEntries[i].entry.change_pct) > 150

FactorCandidates == {i \in 1..Len(ScannedEntries) : IsFactorCandidate(i)}

\* C20 as claimed: contributing_factors is the top 3, by |change_pct|, of the
\* candidates of all three breakdowns.
\* (Violated: no entry of the request-type breakdown is ever a factor.)
C20_FactorsFromAllDimensions ==
    attribution # None =>
        LET factors == attribution.contributing_factors
        IN  /\ Len(factors) = Min(3, Cardinality(FactorCandidates))
            /\ \A k \in 1..Len(factors) : \E i \in FactorCandidates :
                  /\ factors[k].dimension = ScannedEntries[i].dimension
                  /\ factors[k].name = ScannedEntries[i].entry.name
                  /\ factors[k].change_pct = ScannedEntries[i].entry.change_pct
            /\ \A k \in 1..(Len(factors) - 1) :
                  Abs(factors[k].change_pct) >= Abs(factors[k + 1].change_pct)
            /\ \A i \in FactorCandidates : \A k \in 1..Len(factors) :
                  \/ Abs(ScannedEntries[i].entry.change_pct)
                        <= Abs(factors[k].change_pct)
                  \/ \E m \in 1..Len(factors) :
                        /\ factors[m].dimension = ScannedEntries[i].dimension
                        /\ factors[m].name = ScannedEntries[i].entry.name

\* The attributes train may set, where the predictor has them.
TrainedState(self) ==
    IF self.enabled
    THEN <<self.is_trained, self.model, self.scaler>>
    ELSE <<>>

\* C14: train with fewer than 10 samples returns the insufficient-data error
\* result, raises nothing and leaves the predictor (is_trained, model, scaler,
\* the saved files) as it was, so that predict_next_24h answers as before.
C14_ShortHistoryLeavesPredictor ==
    (/\ cost_call # None
     /\ cost_call.op = "train"
     /\ cost_call.args[1].samples < 10)
    => /\ ~cost_call.result.raised
       /\ DOMAIN cost_call.result.value = {"error"}
       /\ TrainedState(predictor) = TrainedState(cost_call.before)
       /\ predictor = cost_call.before
       /\ \A m \in CostMetrics : \A b \in DailyBudgets :
             predict_next_24h(predictor, m, b)
                 = predict_next_24h(cost_call.before, m, b)

\* C14 witness: a predictor trained before is given 9 samples.
C14_Witness ==
    /\ cost_call # None
    /\ cost_call.op = "train"
    /\ cost_call.args[1].samples = 9
    /\ cost_call.before.enabled
    /\ cost_call.before.is_trained
    /\ cost_call.before.model.hourly_cost # cost_call.args[1].cost_usd
    /\ predictor.is_trained
    /\ cost_call.result = Return([error |-> "Not enough data to train model"])

\* C15: predict_next_24h of a disabled or untrained predictor raises nothing
\* and returns (as fallback_prediction of its "Model not trained" result) the
\* simple projection, whose predicted_cost_24h is
\* cost_per_request * request_count * 24 of the metrics given.
C15_FallbackProjection ==
    (/\ cost_call # None
     /\ cost_call.op = "predict_next_24h"
     /\ (~cost_call.before.enabled \/ ~cost_call.before.is_trained))
    => /\ ~cost_call.result.raised
       /\ cost_call.result.value.fallback_prediction.method = "simple_projection"
       /\ cost_call.result.value.fallback_prediction.predicted_cost_24h
             = Get(cost_call.args[1], "cost_per_request", 10)
                   * Get(cost_call.args[1], "request_count", 100) * 24

\* C15 witness: a disabled predictor asked for 2000 requests of $0.0025:
\* $120 over 24 hours.
C15_Witness ==
    /\ cost_call # None
    /\ cost_call.op = "predict_next_24h"
    /\ ~predictor.enabled
    /\ cost_call.args[1] = [request_count |-> 2000, avg_input_tokens |-> 500,
                            cost_per_request |-> 25]
    /\ ~cost_call.result.raised
    /\ cost_call.result.value.fallback_prediction.predicted_cost_24h = 1200000

\* A call of detect_semantic_drift that returned a result without an error.
DriftResult ==
    /\ drift_call # None
    /\ drift_call.op = "detect_semantic_drift"
    /\ ~drift_call.result.raised
    /\ "drift_score" \in DOMAIN drift_call.result.value

\* C16 as stated: in every successful result of detect_semantic_drift, detected
\* is true exactly when the reported drift_score is above 0.2, which is exactly
\* when severity is 'medium' or 'high', and severity is 'high' exactly when the
\* reported drift_score is above 0.3.
C16_DetectedIffReportedScore ==
    DriftResult =>
        LET r == drift_call.result.value
        IN  /\ r.detected <=> Greater(r.drift_score, 200)
            /\ r.detected <=> r.severity \in {"medium", "high"}
            /\ r.severity = "high" <=> Greater(r.drift_score, 300)

\* C16 amended: in every successful result of detect_semantic_drift, detected
\* is true exactly when the drift before rounding is above 0.2, which is
\* exactly when severity is 'medium' or 'high' ('high' exactly when the drift
\* before rounding is above 0.3); the reported drift_score is that drift
\* rounded to three decimals, so a drift_score above 0.2 implies detected and
\* detected implies a drift_score of at least 0.2.
C16_DetectedIffDrift ==
    DriftResult =>
        LET r     == drift_call.result.value
            drift == CentroidDrift(drift_call.args[1])
        IN  /\ r.detected <=> Greater(drift, 2000)
            /\ r.detected <=> r.severity \in {"medium", "high"}
            /\ r.severity = "high" <=> Greater(drift, 3000)
            /\ r.drift_score = (IF drift = NaN THEN NaN ELSE RoundDiv(drift, 10))
            /\ Greater(r.drift_score, 200) => r.detected
            /\ r.detected => r.drift_score >= 200

\* C16 witness: a drift of 0.2004 against a baseline kept as a list is
\* detected with severity 'medium' and reported as a drift_score of 0.2.
C16_Witness ==
    /\ DriftResult
    /\ CentroidDrift(drift_call.args[1]) = 2004
    /\ drift_call.result.value.detected
    /\ drift_call.result.value.severity = "medium"
    /\ drift_call.result.value.drift_score = 200

\* The load of the persisted history fails at some point: the file cannot be
\* read, is not a JSON object, or holds a record a dataclass rejects.
LoadFails(disk) ==
    \/ disk.file.kind \in {"unreadable", "malformed", "json_list"}
    \/ /\ disk.file.kind = "json"
       /\ \/ \E i \in DOMAIN Get(disk.file.data, "recommendations", <<>>) :
                OptimizationRecommendation(disk.file.data.recommendations[i]).raised
          \/ \E i \in DOMAIN Get(disk.file.data, "results", <<>>) :
                OptimizationResult(disk.file.data.results[i]).raised

\* C19: when loading the persisted history fails at any point (file
\* unreadable, malformed JSON, or a malformed recommendation or result
\* record), construction ends without raising and the engine holds no
\* recommendations and no results.
C19_LoadFailureYieldsEmptyStore ==
    (optimizer # None /\ LoadFails(storage)) =>
        /\ ~optimizer.raised
        /\ DOMAIN optimizer.value.recommendations = {}
        /\ optimizer.value.results = <<>>

\* The items of a contributor that did not fail, as handed over before the
\* sort (a failed contributor hands over none).
Contributed ==
    insights_call.merged.cost \o insights_call.merged.quality
        \o insights_call.merged.watchdog \o insights_call.merged.routing

BagOfSeq(seq) ==
    LET items == {seq[i] : i \in 1..Len(seq)}
    IN  [x \in items |-> Cardinality({i \in 1..Len(seq) : seq[i] = x})]

\* C12: generate_ml_recommendations always returns a result, whichever single
\* contributor failed (cost predictor, quality predictor, watchdog or model
\* router), and the result holds the items of the contributors that did not
\* fail.
C12_AggregatorNeverFails ==
    insights_call # None =>
        /\ ~insights_call.result.raised
        /\ \A i \in 1..Len(Contributed) :
              \E j \in 1..Len(insights_call.result.value.recommendations) :
                 insights_call.result.value.recommendations[j] = Contributed[i]

\* C13: the recommendations the aggregator returns are in the order of
\* (priority rank, -confidence): in every adjacent pair the earlier rank
\* (critical < high < medium < low) is not greater than the later, and with
\* equal priority the earlier confidence is not smaller; the list is a
\* permutation of the merged inputs.
C13_SortedPermutation ==
    (insights_call # None /\ ~insights_call.result.raised) =>
        LET recs == insights_call.result.value.recommendations
        IN  /\ \A i \in 1..(Len(recs) - 1) :
                  /\ priority_order(recs[i].priority)
                        <= priority_order(recs[i + 1].priority)
                  /\ recs[i].priority = recs[i + 1].priority
                        => recs[i].ml_confidence >= recs[i + 1].ml_confidence
            /\ Len(recs) = Len(Contributed)
            /\ BagOfSeq(recs) = BagOfSeq(Contributed)

\* C13 witness: a returned list of at least four recommendations from three
\* contributors, out of the order they were merged in, with two of equal
\* priority and different confidence next to each other.
C13_Witness ==
    /\ insights_call # None
    /\ ~insights_call.result.raised
    /\ Len(insights_call.result.value.recommendations) >= 4
    /\ insights_call.merged.cost # <<>>
    /\ insights_call.merged.watchdog # <<>>
    /\ insights_call.merged.routing # <<>>
    /\ insights_call.result.value.recommendations # Contributed
    /\ \E i \in 1..(Len(insights_call.result.value.recommendations) - 1) :
          LET recs == insights_call.result.value.recommendations
          IN  /\ recs[i].priority = recs[i + 1].priority
              /\ recs[i].ml_confidence > recs[i + 1].ml_confidence

\* C21: in every AnomalyAttribution returned, contributing_factors has at most
\* 3 entries, none named as the primary cause, each with |change_pct| > 15, in
\* non-increasing order of |change_pct|, and each with confidence
\* min(0.8, 0.4 + contribution_pct/100 * 0.4).
C21_FactorInvariants ==
    attribution # None =>
        LET factors == attribution.contributing_factors
        IN  /\ Len(factors) <= 3
            /\ \A k \in 1..Len(factors) :
                  /\ factors[k].name # attribution.primary_cause.name
                  /\ Abs(factors[k].change_pct) > 150
                  /\ factors[k].confidence
                        = Min(48000000,
                              24000000 + (factors[k].contribution_pct * 24000000) \div 100)
            /\ \A k \in 1..(Len(factors) - 1) :
                  Abs(factors[k].change_pct) >= Abs(factors[k + 1].change_pct)

\* C21 witness: four entries of the endpoint and model breakdowns qualify, the
\* three returned are cut from them, and a model entry is ahead of an endpoint
\* entry of smaller change.
C21_Witness ==
    /\ attribution # None
    /\ Cardinality({i \in FactorCandidates :
                       ScannedEntries[i].dimension # "request_type"}) = 4
    /\ Len(attribution.contributing_factors) = 3
    /\ attribution.contributing_factors[1].dimension = "model"
    /\ attribution.contributing_factors[2].dimension = "endpoint"
    /\ Abs(attribution.contributing_factors[1].change_pct)
          > Abs(attribution.contributing_factors[2].change_pct)

\* The estimated cost of model name for the request.
CostOf(name, request) ==
    TokenCost(Models[name], request.estimated_input_tokens,
              request.estimated_output_tokens)

\* C22: the cost term of a candidate's score takes in whether the candidate's
\* estimated cost is within cost_budget: a candidate over the request's budget
\* scores otherwise than it does on the same request with a budget it meets.
\* (Violated: the budget check is computed and dropped; the score is the same
\* for every cost_budget.)
C22_ScoreDependsOnBudget ==
    \A r \in RouterIds :
        (/\ Routed(r)
         /\ route_calls[r].use_ml
         /\ ~route_calls[r].result.raised)
        => \A name \in DOMAIN Models :
              LET request == route_calls[r].request
              IN  CostOf(name, request) > request.cost_budget
                  => ScoreOf(name, request)
                        # ScoreOf(name, [request EXCEPT
                                            !.cost_budget = CostOf(name, request)])

\* C23: for every latency_ms >= 1500 performance_score is 0, it is never
\* negative, and from 1000 to 1500 ms it falls linearly from 60 to 0.
\* (Violated: 1500 ms scores 60 and 2000 ms scores 0; the last band starts the
\* decay from 60 over again.)
C23_PerformanceZeroFrom1500 ==
    scores # None =>
        /\ scores.performance_score >= 0
        /\ snapshot.latency_ms >= 1500 => scores.performance_score = 0
        /\ (snapshot.latency_ms >= 1000 /\ snapshot.latency_ms < 1500)
              => scores.performance_score
                    = Round2(60 * (1500 - snapshot.latency_ms), 500)

\* C24: cost_score is 100 below $0.001 a request, falls through the bands
\* below $0.01 and below $0.1, is 0 for every cost_per_request >= 0.1 and is
\* never negative.
\* (Violated: $0.1 scores 60; the score reaches 0 at $0.2 only.)
C24_CostScoreZeroFromTenCents ==
    scores # None =>
        /\ scores.cost_score >= 0
        /\ snapshot.cost_per_request < 10 => scores.cost_score = 10000
        /\ (snapshot.cost_per_request >= 10 /\ snapshot.cost_per_request < 1000)
              => scores.cost_score < 10000
        /\ snapshot.cost_per_request >= 1000 => scores.cost_score = 0

\* A call of predict_quality_degradation that returned a forecast.
QualityResult ==
    /\ drift_call # None
    /\ drift_call.op = "predict_quality_degradation"
    /\ ~drift_call.result.raised
    /\ "predicted_quality_24h" \in DOMAIN drift_call.result.value

\* C25: in every successful result of predict_quality_degradation the forecast
\* quality predicted_quality_24h lies in [0, 1], for any number of samples >= 3
\* and any similarities.
\* (Violated: with 3 or 4 samples the forecast is the mean similarity as it
\* is, negative when the similarities are.)
C25_ForecastInUnitInterval ==
    QualityResult =>
        /\ drift_call.args[1].count >= 3
        /\ drift_call.result.value.predicted_quality_24h >= 0
        /\ drift_call.result.value.predicted_quality_24h <= 1000

\* The sum of the predicted_cost values an hourly_breakdown reports.
RECURSIVE SumReported(_)
SumReported(hourly_breakdown) ==
    IF hourly_breakdown = <<>> THEN 0
    ELSE Head(hourly_breakdown).predicted_cost
             + SumReported(Tail(hourly_breakdown))

\* A call of predict_next_24h on a trained model that returned its result.
TrainedPrediction ==
    /\ cost_call # None
    /\ cost_call.op = "predict_next_24h"
    /\ cost_call.before.enabled
    /\ cost_call.before.is_trained
    /\ ~cost_call.result.raised

\* C26: predict_next_24h on a trained model returns an hourly_breakdown of
\* exactly 24 entries, one per hour offset 0..23 with request_count scaled by
\* 1 + 0.01 * offset, and predicted_cost_24h equals the sum of the 24
\* predicted_cost values the breakdown reports, whatever the regression model
\* outputs.
C26_TotalIsSumOfBreakdown ==
    TrainedPrediction
    => LET value == cost_call.result.value
       IN  /\ Len(value.hourly_breakdown) = 24
           /\ \A i \in 1..24 :
                 /\ value.hourly_breakdown[i].hour_offset = i - 1
                 /\ value.hourly_breakdown[i].request_count
                       = Get(cost_call.args[1], "request_count", 100)
                             * (100 + (i - 1))
           /\ value.predicted_cost_24h = SumReported(value.hourly_breakdown)

\* The calls of generate so far all had auto_route enabled.
AllAutoRouted ==
    \A id \in 1..Len(generations) : generations[id].auto_route

\* C27: under concurrent generate calls with auto_route on the shared client,
\* interleaved at their await points, a call in flight finds the client
\* holding the model its own routing selected, a finished call was served by
\* that model, and the 'model' field of its result names the model that
\* served it.
C27_ServedByOwnRouting ==
    AllAutoRouted
    => \A id \in 1..Len(generations) :
          LET call == generations[id]
          IN  IF call.pc = "done"
              THEN /\ call.served_by = call.selected_model
                   /\ call.result.model = call.served_by
              ELSE client.model.model_name = call.selected_model

\* The engine was constructed anew over the store a running engine left.
Restarted ==
    /\ opt_call # None
    /\ opt_call.op = "restart"
    /\ ~optimizer.raised

\* What record_optimization_result, called with request_count and no
\* before_cost, takes as before_cost.
BeforeCostOf(self, id) ==
    record_optimization_result(self, storage, id,
                               [after_cost |-> 15000, request_count |-> 1000])
        .outcome.value.before_cost

\* C28: saving the optimization history and loading it into a freshly
\* constructed engine restores the same state: every recommendation with its
\* id, status, implemented_at and the baseline metrics implement_recommendation
\* recorded, and every result; so record_optimization_result with
\* request_count and no before_cost computes the same before_cost after the
\* restart as before it.
C28_RoundTripRestoresState ==
    Restarted
    => LET was == opt_call.before
           now == optimizer.value
       IN  /\ DOMAIN now.recommendations = DOMAIN was.recommendations
           /\ now.results = was.results
           /\ \A id \in DOMAIN was.recommendations :
                 /\ now.recommendations[id].id = id
                 /\ now.recommendations[id].status
                       = was.recommendations[id].status
                 /\ now.recommendations[id].implemented_at
                       = was.recommendations[id].implemented_at
                 /\ "baseline_metrics" \in DOMAIN was.recommendations[id]
                       => /\ "baseline_metrics"
                                \in DOMAIN now.recommendations[id]
                          /\ now.recommendations[id].baseline_metrics
                                = was.recommendations[id].baseline_metrics
                 /\ was.recommendations[id].status = "implemented"
                       => BeforeCostOf(now, id) = BeforeCostOf(was, id)

\* The recommendations and results of the engine are those before the call.
Untouched ==
    /\ optimizer.value.recommendations = opt_call.before.recommendations
    /\ optimizer.value.results = opt_call.before.results

\* The last call named an id the engine did not know.
UnknownIdNamed ==
    /\ opt_call.op \in {"implement_recommendation", "record_optimization_result"}
    /\ opt_call.args[1] \notin DOMAIN opt_call.before.recommendations

\* The last call was record_optimization_result on a pending recommendation.
PendingRecorded ==
    /\ opt_call.op = "record_optimization_result"
    /\ opt_call.args[1] \in DOMAIN opt_call.before.recommendations
    /\ opt_call.before.recommendations[opt_call.args[1]].status = "pending"

\* C29: after any sequence of create_recommendation,
\* implement_recommendation and record_optimization_result calls, every stored
\* result refers to an existing recommendation whose status is 'implemented';
\* record_optimization_result or implement_recommendation on an unknown id,
\* and record_optimization_result on a pending recommendation, raise an error
\* and leave recommendations and results unchanged; and no call takes a
\* recommendation from 'implemented' back to 'pending'.
C29_Lifecycle ==
    EngineBuilt
    => /\ \A i \in 1..Len(optimizer.value.results) :
             LET id == optimizer.value.results[i].recommendation_id
             IN  /\ id \in DOMAIN optimizer.value.recommendations
                 /\ optimizer.value.recommendations[id].status = "implemented"
       /\ opt_call # None
             => /\ (UnknownIdNamed \/ PendingRecorded)
                      => opt_call.outcome.raised /\ Untouched
                /\ \A id \in DOMAIN opt_call.before.recommendations :
                      opt_call.before.recommendations[id].status = "implemented"
                          => /\ id \in DOMAIN optimizer.value.recommendations
                             /\ optimizer.value.recommendations[id].status
                                   = "implemented"

\* C29 witness: with one recommendation implemented and its result stored,
\* record_optimization_result on another, still pending, raised.
C29_Witness ==
    /\ EngineBuilt
    /\ opt_call # None
    /\ PendingRecorded
    /\ opt_call.outcome.raised
    /\ Len(optimizer.value.results) = 1
    /\ \E id \in DOMAIN optimizer.value.recommendations :
          /\ optimizer.value.recommendations[id].status = "implemented"
          /\ optimizer.value.results[1].recommendation_id = id

\* The sum of the cost_savings of routing records.
RECURSIVE SumCostSavings(_)
SumCostSavings(records) ==
    IF records = <<>> THEN 0
    ELSE Head(records).cost_savings + SumCostSavings(Tail(records))

\* C30: after any sequence of route_request calls, returned or failed,
\* routing_stats['total_routes'] is the number of decisions appended to
\* routing_history since construction, len(routing_history) is
\* min(total_routes, 1000), and routing_stats['cost_savings'] is the sum of the
\* cost_savings of those decisions.
C30_StatsMatchDecisions ==
    \A r \in RouterIds :
        /\ routers[r].routing_stats.total_routes = Len(decisions[r])
        /\ Len(routers[r].routing_history)
              = Min(routers[r].routing_stats.total_routes, HistoryLimit)
        /\ routers[r].routing_stats.cost_savings = SumCostSavings(decisions[r])

=============================================================================
